---- MODULE Spec2Model ----
(***************************************************************************)
(* KJET applicant evaluation and ranking engine.                           *)
(*                                                                         *)
(* Numbers: every real number of the program (criterion scores, weights,   *)
(* composites, prior-round points) is held as a fixed-point integer in     *)
(* hundredths (Fx); sums of products are carried in units of 1/10000 until *)
(* round(.., 2) brings them back to hundredths.                            *)
(* Text: a text is a set of snippets (literal pieces of document text)     *)
(* plus a flag telling whether .lower() was applied to it; substring and   *)
(* regular-expression tests are looked up per snippet.                     *)
(***************************************************************************)
EXTENDS Integers, Sequences, FiniteSets, TLC

\* ------------------------------------------------------------------ bounds
MaxApps == 3
MaxPrior == 2
MaxRuns == 2
MaxSnips == 2
MaxLarge == 7

\* ------------------------------------------------------- generic helpers
Fx == 100

Num(n) == n * Fx

NoneVal == "<None>"

Null == -1000000

Get(d, k, default) == IF k \in DOMAIN d THEN d[k] ELSE default

EmptyDict == [k \in {} |-> 0]

Range(s) == {s[i] : i \in DOMAIN s}

RECURSIVE SetSum(_, _)
SetSum(f, S) ==
  IF S = {} THEN 0
  ELSE LET e == CHOOSE x \in S : TRUE IN f[e] + SetSum(f, S \ {e})

\* round(x, 2) for x in units of 1/10000, result in hundredths (half to even)
Round2(x) ==
  LET q == x \div 100
      r == x % 100
  IN IF r < 50 THEN q
     ELSE IF r > 50 THEN q + 1
     ELSE IF q % 2 = 0 THEN q ELSE q + 1

\* --------------------------------------------------------------- text
Snippets ==
  { "Certificate of Registration No. BN-1234",
    "We are a registered dairy cooperative in Baringo county, Marigat ward",
    "bank statement and mpesa records attached",
    "Our market plan targets buyers; contact phone 0712345678",
    "Tea processing group",
    "Plot 5, founded 2019",
    "Operating since 2015; board minutes kept; turnover 12,000,000 kes and growth in sales" }

Names ==
  { "Marigat Farmers Group", "Kampi Dairy Cooperative Society Limited" }

StructuredValues == {"Dairy (excluding farming)", "Tea", "Poultry"}

\* lowercase keywords occurring in the lowercased string
Keywords ==
  [ s \in Snippets \cup Names \cup StructuredValues |->
    CASE s = "Certificate of Registration No. BN-1234" ->
           {"certificate", "registration"}
      [] s = "We are a registered dairy cooperative in Baringo county, Marigat ward" ->
           {"baringo", "cooperative", "county", "dairy", "m", "registered", "ward"}
      [] s = "bank statement and mpesa records attached" ->
           {"bank", "bank statement", "m", "mpesa"}
      [] s = "Our market plan targets buyers; contact phone 0712345678" ->
           {"contact", "m", "market", "phone", "plan", "targets"}
      [] s = "Tea processing group" ->
           {"processing", "tea", "up"}
      [] s = "Plot 5, founded 2019" ->
           {}
      [] s = "Operating since 2015; board minutes kept; turnover 12,000,000 kes and growth in sales" ->
           {"board", "growth", "m", "minutes", "sales"}
      [] s = "Marigat Farmers Group" ->
           {"m", "up"}
      [] s = "Kampi Dairy Cooperative Society Limited" ->
           {"cooperative", "dairy", "limited", "m"}
      [] s = "Dairy (excluding farming)" ->
           {"dairy", "m"}
      [] s = "Tea" ->
           {"tea"}
      [] s = "Poultry" ->
           {} ]

KeywordsOf(s) == IF s \in DOMAIN Keywords THEN Keywords[s] ELSE {}

\* regular expressions matching the written string
ReRaw ==
  [ s \in Snippets |->
    CASE s = "Certificate of Registration No. BN-1234" ->
           {"re_reg_number", "re_registration_patterns", "re_amount"}
      [] s = "Our market plan targets buyers; contact phone 0712345678" ->
           {"re_amount", "re_phone"}
      [] s = "Plot 5, founded 2019" ->
           {"re_amount"}
      [] s = "Operating since 2015; board minutes kept; turnover 12,000,000 kes and growth in sales" ->
           {"re_amount", "re_currency"}
      [] OTHER -> {} ]

\* regular expressions matching the lowercased string
ReLower ==
  [ s \in Snippets |->
    CASE s = "Certificate of Registration No. BN-1234" ->
           {"re_registration_patterns", "re_amount"}
      [] s = "Our market plan targets buyers; contact phone 0712345678" ->
           {"re_amount", "re_phone"}
      [] s = "Plot 5, founded 2019" ->
           {"re_amount"}
      [] s = "Operating since 2015; board minutes kept; turnover 12,000,000 kes and growth in sales" ->
           {"re_amount", "re_currency"}
      [] OTHER -> {} ]

\* years_operational found by the years_patterns of _score_registration_track_record
YearsOperational ==
  [ s \in Snippets |->
    IF s = "Operating since 2015; board minutes kept; turnover 12,000,000 kes and growth in sales"
    THEN 2024 - 2015 ELSE 0 ]

\* amounts (plain numbers) found by the currency_patterns of _score_financial_position
CurrencyAmounts ==
  [ s \in Snippets |->
    IF s = "Operating since 2015; board minutes kept; turnover 12,000,000 kes and growth in sales"
    THEN {12000000} ELSE {} ]

EmptyText == [snips |-> {}, lower |-> FALSE]

\* content += part + " "
Append1(text, s) == [text EXCEPT !.snips = @ \cup {s}]

\* content.lower()
Lower(text) == [text EXCEPT !.lower = TRUE]

\* kw in content.lower()     (kw is a lowercase literal)
KwIn(kw, text) == \E s \in text.snips : kw \in KeywordsOf(s)

AnyKw(kws, text) == \E kw \in kws : KwIn(kw, text)

\* re.search(pattern, content)
ReSearch(name, text) ==
  \E s \in text.snips :
     s \in Snippets /\ name \in (IF text.lower THEN ReLower[s] ELSE ReRaw[s])

\* len(content.strip()) of the parts joined by single blanks
TextLen(text) ==
  LET n == Cardinality(text.snips)
  IN IF n = 0 THEN 0
     ELSE SetSum([s \in text.snips |-> Len(s)], text.snips) + (n - 1)

\* str.lower() of the structured values that occur
LowerStr(s) ==
  CASE s = "Limited" -> "limited"
    [] s = "Cooperative" -> "cooperative"
    [] s = "Unregistered" -> "unregistered"
    [] s = "Business Name" -> "business name"
    [] s = "Yes" -> "yes"
    [] s = "No" -> "no"
    [] OTHER -> s

\* float(str(turnover).replace(",", "")); Null when float() raises ValueError
ParseFloat(s) ==
  CASE s = "500,000" -> Num(500000)
    [] s = "1,000,000" -> Num(1000000)
    [] s = "5,000,000" -> Num(5000000)
    [] s = "7,500,000" -> Num(7500000)
    [] s = "10,000,000" -> Num(10000000)
    [] s = "12,000,000" -> Num(12000000)
    [] s = "0" -> 0
    [] OTHER -> Null

\* ---------------------------------------------------------- criteria
Criteria ==
  { "registration_track_record", "financial_position", "market_demand_competitiveness",
    "business_proposal_viability", "value_chain_alignment", "inclusivity_sustainability" }

Gates ==
  { "E1_registration_legality", "E2_county_mapping", "E3_priority_value_chain",
    "E4_financial_evidence", "E5_consent_contactability" }

\* all(d.values())
AllValues_any(d) == \E k \in DOMAIN d : d[k]

AllValues(d) == \A k \in DOMAIN d : d[k]

\* ---------------------------------------------------- Cohort1Strategy
Cohort1_get_priority_value_chains == {"dairy", "textiles", "construction", "leather"}

Cohort1_get_scoring_weights_heavy ==
  [ registration_track_record |-> 5,
    financial_position |-> 20,
    market_demand_competitiveness |-> 20,
    business_proposal_viability |-> 25,
    value_chain_alignment |-> 15,
    inclusivity_sustainability |-> 20 ]

Cohort1_get_scoring_weights ==
  [ registration_track_record |-> 5,
    financial_position |-> 20,
    market_demand_competitiveness |-> 20,
    business_proposal_viability |-> 25,
    value_chain_alignment |-> 10,
    inclusivity_sustainability |-> 20 ]

Cohort1_check_eligibility(application, content) ==
  [ E1_registration_legality |->
      AnyKw({"private company", "limited", "cooperative", "registered"}, content),
    E2_county_mapping |-> AnyKw({"county", "constituency", "ward"}, content),
    E3_priority_value_chain |-> AnyKw(Cohort1_get_priority_value_chains, content),
    E4_financial_evidence |->
      \/ Cardinality(Get(application, "financial_documents", {})) > 0
      \/ AnyKw({"bank statement", "mpesa"}, content),
    E5_consent_contactability |-> AnyKw({"phone", "email", "contact"}, content) ]

Cohort1_get_tie_breaker_order ==
  << "composite_score", "business_proposal_viability", "financial_position" >>

Cohort1_get_tier_logic(scores) == "Tier 2: Emerging"

Cohort1_calculate_scores(application, content, scoring_weights) ==
  LET assigned ==
        {"value_chain_alignment", "inclusivity_sustainability"}
        \cup (IF KwIn("registered", content) THEN {"registration_track_record"} ELSE {})
        \cup (IF KwIn("bank statement", content) THEN {"financial_position"} ELSE {})
        \cup (IF KwIn("market", content) THEN {"market_demand_competitiveness"} ELSE {})
        \cup (IF KwIn("plan", content) THEN {"business_proposal_viability"} ELSE {})
  IN [ k \in DOMAIN scoring_weights \cup assigned |->
       IF k \notin assigned THEN 0
       ELSE IF k = "value_chain_alignment" THEN Num(4) ELSE Num(3) ]

\* ---------------------------------------------------- Cohort2Strategy
Cohort2_get_scoring_weights ==
  [ business_proposal_viability |-> 25,
    financial_position |-> 20,
    market_demand_competitiveness |-> 20,
    inclusivity_sustainability |-> 20,
    value_chain_alignment |-> 10,
    registration_track_record |-> 5 ]

Cohort2_priority_keywords ==
  { "dairy", "tea", "rice", "oil", "textile", "construction", "blue economy", "minerals",
    "forestry", "leather", "processing", "manufacturing", "value chain" }

\* not value, for a str or None value
Falsy(v) == v = "" \/ v = NoneVal

Cohort2_check_eligibility(application, content) ==
  LET csv_meta == Get(application, "csv_metadata", EmptyDict)
      reg_status == LowerStr(Get(csv_meta, "registration_status", ""))
      reg_number0 == Get(csv_meta, "registration_number", "")
      reg_number == IF Falsy(reg_number0) /\ ReSearch("re_reg_number", content)
                    THEN "BN-1234" ELSE reg_number0
      e1 == (reg_status # "unregistered" /\ reg_status # "") \/ ~Falsy(reg_number)
      vc_csv == Get(csv_meta, "value_chain", "")
      vc_other == Get(csv_meta, "value_chain_other", "")
      e3_csv == \/ KeywordsOf(vc_csv) \cap Cohort2_priority_keywords # {}
                \/ KeywordsOf(vc_other) \cap Cohort2_priority_keywords # {}
      e3 == IF e3_csv THEN TRUE ELSE AnyKw(Cohort2_priority_keywords, content)
      e4_docs == \/ Cardinality(Get(application, "financial_documents", {})) > 0
                 \/ AnyKw({"bank statement", "mpesa", "financial statement", "cashflow",
                           "balance sheet"}, content)
      e4 == IF e4_docs THEN TRUE
            ELSE \/ ~Falsy(Get(csv_meta, "turnover_2024", NoneVal))
                 \/ ~Falsy(Get(csv_meta, "turnover_2023", NoneVal))
  IN [ E1_registration_legality |-> e1,
       E2_county_mapping |-> TRUE,
       E3_priority_value_chain |-> e3,
       E4_financial_evidence |-> e4,
       E5_consent_contactability |-> TRUE ]

Cohort2_get_tie_breaker_order ==
  << "composite_score", "business_proposal_viability", "market_demand_competitiveness",
     "financial_position", "inclusivity_sustainability", "registration_track_record" >>

Cohort2_get_tier_logic_either(scores) ==
  IF Get(scores, "financial_position", 0) >= Num(4)
     \/ Get(scores, "market_demand_competitiveness", 0) >= Num(4)
  THEN "Tier 1: Ready-to-Scale"
  ELSE "Tier 2: Emerging"

Cohort2_get_tier_logic(scores) ==
  LET financial == Get(scores, "financial_position", 0)
      market == Get(scores, "market_demand_competitiveness", 0)
  IN IF financial >= Num(4) /\ market >= Num(4)
     THEN "Tier 1: Ready-to-Scale" ELSE "Tier 2: Emerging"

Cohort2_calculate_scores(application, content, scoring_weights) ==
  LET csv_meta == Get(application, "csv_metadata", EmptyDict)
      reg_status == LowerStr(Get(csv_meta, "registration_status", ""))
      registration ==
        IF reg_status \in {"private company", "limited", "cooperative"} THEN Num(5)
        ELSE IF reg_status # "" THEN Num(4) ELSE Num(3)
      t24 == Get(csv_meta, "turnover_2024", NoneVal)
      turnover == IF ~Falsy(t24) THEN t24 ELSE Get(csv_meta, "turnover_2023", NoneVal)
      t_val == ParseFloat(turnover)
      financial ==
        IF ~Falsy(turnover)
        THEN IF t_val = Null THEN Num(3)
             ELSE IF t_val > Num(10000000) THEN Num(5)
             ELSE IF t_val > Num(5000000) THEN Num(4)
             ELSE Num(3)
        ELSE IF Cardinality(Get(application, "financial_documents", {})) > 0 THEN Num(3)
        ELSE 0
      exports == Get(csv_meta, "exports_percent", "0")
      market ==
        IF exports \notin {"", " ", "0"} THEN Num(5)
        ELSE IF ~Falsy(Get(csv_meta, "b2b_description", NoneVal)) THEN Num(4)
        ELSE Num(3)
      obj == Get(csv_meta, "business_objectives", 0)
      proposal == IF obj > 200 THEN Num(5) ELSE IF obj > 50 THEN Num(4) ELSE Num(3)
      woman_owned == LowerStr(Get(csv_meta, "woman_owned_enterprise", ""))
      inclusivity == IF woman_owned = "yes" THEN Num(5) ELSE Num(3)
      assigned == (Criteria \ {"financial_position"})
                  \cup (IF ~Falsy(turnover) \/ Cardinality(Get(application, "financial_documents", {})) > 0
                        THEN {"financial_position"} ELSE {})
  IN [ k \in DOMAIN scoring_weights \cup assigned |->
       CASE k = "registration_track_record" -> registration
         [] k = "financial_position" -> financial
         [] k = "market_demand_competitiveness" -> market
         [] k = "business_proposal_viability" -> proposal
         [] k = "value_chain_alignment" -> Num(4)
         [] k = "inclusivity_sustainability" -> inclusivity
         [] OTHER -> 0 ]

\* ------------------------------------------------------- KJETAnalyzer
Cohorts == {"latest", "c1"}

\* strategy and top_n selected by __init__
StrategyOf(c) == IF c = "latest" THEN "Cohort2Strategy" ELSE "Cohort1Strategy"

TopNOf_six(c) == 6

TopNOf(c) == IF c = "latest" THEN 6 ELSE 2

get_scoring_weights(strategy) ==
  IF strategy = "Cohort2Strategy" THEN Cohort2_get_scoring_weights
  ELSE Cohort1_get_scoring_weights

check_eligibility(strategy, application, content) ==
  IF strategy = "Cohort2Strategy" THEN Cohort2_check_eligibility(application, content)
  ELSE Cohort1_check_eligibility(application, content)

calculate_scores(strategy, application, content, scoring_weights) ==
  IF strategy = "Cohort2Strategy"
  THEN Cohort2_calculate_scores(application, content, scoring_weights)
  ELSE Cohort1_calculate_scores(application, content, scoring_weights)

get_tie_breaker_order(strategy) ==
  IF strategy = "Cohort2Strategy" THEN Cohort2_get_tie_breaker_order
  ELSE Cohort1_get_tie_breaker_order

get_tier(strategy, scores) ==
  IF strategy = "Cohort2Strategy" THEN Cohort2_get_tier_logic(scores)
  ELSE Cohort1_get_tier_logic(scores)

analyze_eligibility(strategy, application, content) ==
  LET criteria == check_eligibility(strategy, application, content)
  IN [eligible |-> AllValues(criteria), criteria_results |-> criteria]

WeightedTotal_unscaled(scores, scoring_weights) ==
  LET keys == DOMAIN scores \cap DOMAIN scoring_weights
  IN SetSum([c \in keys |-> (scores[c] * 100) * scoring_weights[c]], keys)

\* weighted_total in units of 1/10000: (score / 5.0 * 100) * weight per criterion
WeightedTotal(scores, scoring_weights) ==
  LET keys == DOMAIN scores \cap DOMAIN scoring_weights
  IN SetSum([c \in keys |-> ((scores[c] * 100) \div 5) * scoring_weights[c]], keys)

\* the tail of score_application: scores with the two composite keys added
WithComposite(scores, composite) ==
  [ k \in DOMAIN scores \cup {"composite_score", "weighted_score"} |->
    IF k \in {"composite_score", "weighted_score"} THEN composite ELSE scores[k] ]

CompositeOf(scores, scoring_weights) ==
  WithComposite(scores, Round2(WeightedTotal(scores, scoring_weights)))

score_application(strategy, scoring_weights, application, content) ==
  CompositeOf(calculate_scores(strategy, application, content, scoring_weights), scoring_weights)

\* a csv_metadata field left None by csv.DictReader (a row shorter than the
\* header): None.lower() raises AttributeError in check_eligibility
Cohort2_check_eligibility_raises(application, content) ==
  LET csv_meta == Get(application, "csv_metadata", EmptyDict)
  IN \/ Get(csv_meta, "registration_status", "") = NoneVal
     \/ Get(csv_meta, "value_chain", "") = NoneVal
     \/ Get(csv_meta, "value_chain_other", "") = NoneVal

\* the same in calculate_scores
Cohort2_calculate_scores_raises(application, content) ==
  LET csv_meta == Get(application, "csv_metadata", EmptyDict)
  IN \/ Get(csv_meta, "registration_status", "") = NoneVal
     \/ Get(csv_meta, "woman_owned_enterprise", "") = NoneVal

\* Cohort1Strategy reads the content only
check_eligibility_raises(strategy, application, content) ==
  strategy = "Cohort2Strategy" /\ Cohort2_check_eligibility_raises(application, content)

\* the error leaves analyze_eligibility or score_application uncaught
AppRaises(strategy, application, content) ==
  \/ check_eligibility_raises(strategy, application, content)
  \/ /\ strategy = "Cohort2Strategy"
     /\ analyze_eligibility(strategy, application, content).eligible
     /\ Cohort2_calculate_scores_raises(application, content)

\* application_id strings are held as their "_"-separated parts
RECURSIVE JoinId(_)
JoinId(id) ==
  IF Len(id) = 0 THEN ""
  ELSE IF Len(id) = 1 THEN id[1]
  ELSE id[1] \o "_" \o JoinId(Tail(id))

\* app_id_full.split("_")[-1] if "_" in app_id_full else app_id_full
ShortId(id) == IF Len(id) = 0 THEN "" ELSE id[Len(id)]

\* str.title() of the county names that occur
Title(s) ==
  CASE s = "baringo" -> "Baringo"
    [] s = "BARINGO" -> "Baringo"
    [] s = "nakuru" -> "Nakuru"
    [] s = "West pokot" -> "West Pokot"
    [] OTHER -> s

\* csv_data built by load_county_data: the last row of each non-empty app_id
CsvData(rows) ==
  LET ids == {Get(rows[i], "app_id", "") : i \in DOMAIN rows} \ {""}
      last(id) == CHOOSE i \in DOMAIN rows :
                    /\ Get(rows[i], "app_id", "") = id
                    /\ \A j \in DOMAIN rows : Get(rows[j], "app_id", "") = id => j <= i
  IN [id \in ids |-> rows[last(id)]]

\* the merge loop of load_county_data for one application
MergeCsv(app, csv_data) ==
  LET app_id_short == ShortId(Get(app, "application_id", <<>>))
  IN IF app_id_short \in DOMAIN csv_data
     THEN [ k \in DOMAIN app \cup {"csv_metadata", "applicant_name"} |->
            IF k = "csv_metadata" THEN csv_data[app_id_short]
            ELSE IF k = "applicant_name"
                 THEN Get(csv_data[app_id_short], "cluster_name",
                          Get(app, "applicant_name", "Unknown"))
            ELSE app[k] ]
     ELSE app

\* load_county_data: listing is the order in which os.listdir returned the
\* county files; old is self.counties_data before the call
load_county_data(old, fs, listing) ==
  LET loaded(c) ==
        [applications |->
           [i \in DOMAIN fs[c].applications |->
              MergeCsv(fs[c].applications[i], CsvData(fs[c].csv))]]
      fresh == SelectSeq(listing, LAMBDA c : c \notin DOMAIN old.data)
  IN [ order |-> old.order \o fresh,
       data |-> [c \in DOMAIN old.data \cup Range(listing) |->
                   IF c \in Range(listing) THEN loaded(c) ELSE old.data[c]] ]

PriorCriteria ==
  [ registration_track_record |-> "A3.1",
    financial_position |-> "A3.2",
    market_demand_competitiveness |-> "A3.3",
    business_proposal_viability |-> "A3.4",
    value_chain_alignment |-> "A3.5",
    inclusivity_sustainability |-> "A3.6" ]

\* x / 20.0
Div20(x) == x \div 20

\* building one alternate raises TypeError / AttributeError on a null field
AlternateRaises(app) ==
  \/ Get(app, "E2. County Mapping", "Unknown") = NoneVal
  \/ \E c \in DOMAIN PriorCriteria : Get(app, PriorCriteria[c], 0) = Null

AlternateOf(app) ==
  LET county == Title(Get(app, "E2. County Mapping", "Unknown"))
      id == Get(app, "Application ID", <<"None">>)
  IN [ application_id |-> <<"C1">> \o id,
       applicant_name |-> "Cohort 1 Alternate (" \o JoinId(id) \o ")",
       county |-> county,
       composite_score |-> Get(app, "TOTAL", 0),
       weighted_score |-> Get(app, "TOTAL", 0),
       is_c1_alternate |-> TRUE,
       scores |->
         [ k \in DOMAIN PriorCriteria \cup {"composite_score"} |->
           IF k = "composite_score" THEN Get(app, "TOTAL", 0)
           ELSE Div20(Get(app, PriorCriteria[k], 0)) ] ]

InRankBand_from3(rank) == rank >= 3

\* rank in [3, 4]
InRankBand(rank) == rank \in {3, 4}

\* load_cohort1_alternates: the loop stops at the first record that raises
RECURSIVE LoadAlternatesFrom(_, _, _)
LoadAlternatesFrom(records, i, alternates) ==
  IF i > Len(records) THEN alternates
  ELSE LET app == records[i]
           rank == Get(app, "Ranking from composite score", 0)
       IN IF ~InRankBand(rank) THEN LoadAlternatesFrom(records, i + 1, alternates)
          ELSE IF AlternateRaises(app) THEN alternates
          ELSE LET alt == AlternateOf(app)
                   county == alt.county
               IN LoadAlternatesFrom(records, i + 1,
                    [ c \in DOMAIN alternates \cup {county} |->
                      IF c = county THEN Append(Get(alternates, county, <<>>), alt)
                      ELSE alternates[c] ])

load_cohort1_alternates(c1) ==
  IF ~c1.exists THEN EmptyDict
  ELSE LoadAlternatesFrom(c1.records, 1, EmptyDict)

\* the content extraction at the head of the application loop of run_analysis
ExtractContent(app) ==
  LET info == [EmptyText EXCEPT !.snips = Get(app, "application_info", {})]
      base == IF "details" \in DOMAIN app THEN Append1(info, app["details"]) ELSE info
  IN IF TextLen(base) < 50
     THEN [base EXCEPT !.snips = @ \cup {JoinId(Get(app, "application_id", <<>>))}
                                   \cup (IF "applicant_name" \in DOMAIN app
                                         THEN {app["applicant_name"]} ELSE {})]
     ELSE base

\* the application loop of run_analysis for one county
\* the dict appended to county_results for an eligible application
ResultEntry(app, county_name, scores) ==
  [ application_id |-> Get(app, "application_id", <<"None">>),
    applicant_name |-> Get(app, "applicant_name", "Unknown"),
    county |-> county_name,
    scores |-> scores,
    composite_score |-> scores["composite_score"],
    weighted_score |-> scores["weighted_score"],
    is_c1_alternate |-> FALSE ]

\* one pass of the application loop: the entries the application adds
AppResults(strategy, scoring_weights, county_name, app, content) ==
  IF analyze_eligibility(strategy, app, content).eligible
  THEN << ResultEntry(app, county_name,
                      score_application(strategy, scoring_weights, app, content)) >>
  ELSE << >>

CountyResults(strategy, scoring_weights, county_name, apps) ==
  LET F[i \in 0..Len(apps)] ==
        IF i = 0 THEN <<>>
        ELSE F[i - 1] \o AppResults(strategy, scoring_weights, county_name,
                                    apps[i], ExtractContent(apps[i]))
  IN F[Len(apps)]

Blend_replace(county_results, county_name, alternates) ==
  IF county_name \in DOMAIN alternates
  THEN alternates[county_name]
  ELSE county_results

\* county_results.extend(c1_alternates[county_name]) when the key is present
Blend(county_results, county_name, alternates) ==
  IF county_name \in DOMAIN alternates
  THEN county_results \o alternates[county_name]
  ELSE county_results

sort_key_composite_only(x, tie_breaker) ==
  << 0 - Get(Get(x, "scores", EmptyDict), tie_breaker[1], Get(x, tie_breaker[1], 0)) >>

sort_key(x, tie_breaker) ==
  [ i \in 1..Len(tie_breaker) |->
    0 - Get(Get(x, "scores", EmptyDict), tie_breaker[i], Get(x, tie_breaker[i], 0)) ]

\* negating None raises TypeError
SortKeyRaises(x, tie_breaker) ==
  \E i \in 1..Len(tie_breaker) :
     Get(Get(x, "scores", EmptyDict), tie_breaker[i], Get(x, tie_breaker[i], 0)) = Null

\* tuple comparison a < b
TupleLess(a, b) ==
  \E i \in DOMAIN a : a[i] < b[i] /\ \A j \in 1..(i - 1) : a[j] = b[j]

\* list.sort(key=sort_key): ascending and stable
InsertAt(sorted, x, n) == SubSeq(sorted, 1, n) \o <<x>> \o SubSeq(sorted, n + 1, Len(sorted))

StableSort(seq, tie_breaker) ==
  LET Insert(sorted, x) ==
        InsertAt(sorted, x,
          Cardinality({ j \in DOMAIN sorted :
             ~TupleLess(sort_key(x, tie_breaker), sort_key(sorted[j], tie_breaker)) }))
      F[i \in 0..Len(seq)] == IF i = 0 THEN <<>> ELSE Insert(F[i - 1], seq[i])
  IN F[Len(seq)]

\* entries of equal composite share a rank
AssignRanks_dense(sorted, strategy, top_n) ==
  [ i \in DOMAIN sorted |->
    [ k \in DOMAIN sorted[i] \cup {"rank", "tier"} |->
      IF k = "rank"
      THEN 1 + Cardinality({ j \in DOMAIN sorted :
                              sorted[j].composite_score > sorted[i].composite_score })
      ELSE IF k = "tier"
           THEN IF i - 1 < top_n THEN get_tier(strategy, Get(sorted[i], "scores", EmptyDict))
                ELSE NoneVal
      ELSE sorted[i][k] ] ]

\* the tier is kept one rank too far
AssignRanks_inclusive(sorted, strategy, top_n) ==
  [ i \in DOMAIN sorted |->
    [ k \in DOMAIN sorted[i] \cup {"rank", "tier"} |->
      IF k = "rank" THEN i
      ELSE IF k = "tier"
           THEN IF i - 1 <= top_n THEN get_tier(strategy, Get(sorted[i], "scores", EmptyDict))
                ELSE NoneVal
      ELSE sorted[i][k] ] ]

\* the enumerate loop of run_analysis: rank and tier of every entry
AssignRanks(sorted, strategy, top_n) ==
  [ i \in DOMAIN sorted |->
    [ k \in DOMAIN sorted[i] \cup {"rank", "tier"} |->
      IF k = "rank" THEN i
      ELSE IF k = "tier"
           THEN IF i - 1 < top_n THEN get_tier(strategy, Get(sorted[i], "scores", EmptyDict))
                ELSE NoneVal
      ELSE sorted[i][k] ] ]

\* --------------------------- KJETCountyEvaluator (scripts/evaluation)
DocContents(application, key) == Get(application, key, {})

\* _extract_application_content of scripts/evaluation/county_evaluator.py
extract_application_content(application) ==
  Lower([EmptyText EXCEPT !.snips =
           DocContents(application, "application_info")
           \cup DocContents(application, "financial_documents")
           \cup DocContents(application, "registration_documents")
           \cup DocContents(application, "other_documents")])

FailureReasons(criteria_results) ==
  (IF ~criteria_results["E1_registration_legality"]
   THEN <<"E1: No valid registration/legal status found">> ELSE <<>>)
  \o (IF ~criteria_results["E2_county_mapping"]
      THEN <<"E2: County mapping unclear or missing">> ELSE <<>>)
  \o (IF ~criteria_results["E3_priority_value_chain"]
      THEN <<"E3: Not operating in priority value chain">> ELSE <<>>)
  \o (IF ~criteria_results["E4_financial_evidence"]
      THEN <<"E4: Insufficient financial evidence">> ELSE <<>>)
  \o (IF ~criteria_results["E5_consent_contactability"]
      THEN <<"E5: Missing contact information or consent">> ELSE <<>>)

get_grade(score) ==
  IF score >= Num(80) THEN "Excellent"
  ELSE IF score >= Num(70) THEN "Good"
  ELSE IF score >= Num(60) THEN "Fair"
  ELSE "Poor"

\* the loop and the return value of _score_application, given the scores
ScoringBlock(scores, weights, keys) ==
  [ criteria_scores |-> scores,
    weighted_scores |->
      [ c \in keys |->
        [ raw_score |-> scores[c],
          normalized_score |-> scores[c] * 20,
          weight |-> weights[c],
          weighted_score |-> Round2(scores[c] * 20 * weights[c]) ] ],
    composite_score |-> Round2(SetSum([c \in keys |-> scores[c] * 20 * weights[c]], keys)),
    grade |-> get_grade(Round2(SetSum([c \in keys |-> scores[c] * 20 * weights[c]], keys))) ]

\* KJETCountyEvaluator._score_application (strategy based)
Evaluator_score_application(strategy, weights, application, content) ==
  ScoringBlock(calculate_scores(strategy, application, content, weights), weights,
               DOMAIN calculate_scores(strategy, application, content, weights)
               \cap DOMAIN weights)

\* the eligibility dict and the evaluation built from the gate results
EligibilityOf(criteria_results) ==
  [ eligible |-> AllValues(criteria_results),
    criteria_results |-> criteria_results,
    failure_reasons |-> FailureReasons(criteria_results) ]

EvaluationOf(application, eligibility) ==
  [ application_id |-> Get(application, "application_id", <<"unknown">>),
    business_type |-> Get(application, "business_type", "unknown"),
    woman_owned |-> Get(application, "woman_owned", FALSE),
    eligibility |-> eligibility ]

WithScoring(evaluation, scoring) ==
  [ k \in DOMAIN evaluation \cup {"scoring"} |->
    IF k = "scoring" THEN scoring ELSE evaluation[k] ]

\* the criteria_results mapping of evaluate_single_application
MapCriteria(criteria_raw) == [ g \in Gates |-> Get(criteria_raw, g, FALSE) ]

\* scoring invoked whatever the eligibility
EvaluateWith_always(strategy, weights, application, content, eligibility) ==
  WithScoring(EvaluationOf(application, eligibility),
              Evaluator_score_application(strategy, weights, application, content))

EvaluateWith(strategy, weights, application, content, eligibility) ==
  IF eligibility.eligible
  THEN WithScoring(EvaluationOf(application, eligibility),
                   Evaluator_score_application(strategy, weights, application, content))
  ELSE EvaluationOf(application, eligibility)

\* KJETCountyEvaluator.evaluate_single_application (strategy based)
evaluate_single_application(strategy, weights, application, content) ==
  EvaluateWith(strategy, weights, application, content,
               EligibilityOf(MapCriteria(check_eligibility(strategy, application, content))))

\* ------------------------------- KJETCountyEvaluator (county_evaluator.py)
Legacy_primary_criteria_weights ==
  [ registration_track_record |-> 5,
    financial_position |-> 20,
    market_demand_competitiveness |-> 20,
    business_proposal_viability |-> 25,
    value_chain_alignment |-> 10,
    inclusivity_sustainability |-> 20 ]

Legacy_financial_keywords ==
  { "balance sheet", "income statement", "cashflow", "mpesa", "bank statement",
    "financial statement", "profit loss", "audited accounts" }

Legacy_contact_indicators ==
  { "phone", "email", "contact", "consent", "mobile", "telephone", "cell", "address",
    "location" }

Legacy_priority_keywords ==
  { "dairy", "tea", "rice", "oil", "textile", "construction", "blue economy", "minerals",
    "forestry", "leather", "edible oil", "processing", "manufacturing" }

\* _extract_application_content of county_evaluator.py
Legacy_extract_application_content(application) ==
  Lower([EmptyText EXCEPT !.snips =
           DocContents(application, "application_info")
           \cup DocContents(application, "financial_documents")
           \cup DocContents(application, "other_documents")])

Legacy_evaluate_registration_legality(application, content) ==
  \/ AnyKw({"registration", "registered", "company", "cooperative", "limited", "ltd", "sacco",
            "association", "certificate", "registration number"}, content)
  \/ ReSearch("re_registration_patterns", content)

Legacy_evaluate_county_mapping(application, county_name, content) ==
  /\ KwIn(LowerStr(county_name), content)
  /\ AnyKw({"ward", "constituency", "sub-county", "location", "address"}, content)

Legacy_evaluate_value_chain(application, content) ==
  \/ \E chain \in Get(application, "value_chains_mentioned", {}) :
        KeywordsOf(chain) \cap Legacy_priority_keywords # {}
  \/ AnyKw(Legacy_priority_keywords, content)

Legacy_evaluate_financial_evidence(application, content) ==
  \/ AnyKw(Legacy_financial_keywords, content)
  \/ Cardinality(Get(application, "financial_documents", {})) > 0
  \/ ReSearch("re_amount", content)
  \/ ReSearch("re_currency", content)
  \/ ReSearch("re_fin_terms", content)

Legacy_evaluate_contactability(application, content) ==
  \/ AnyKw(Legacy_contact_indicators, content)
  \/ ReSearch("re_phone", content)
  \/ ReSearch("re_email", content)

Legacy_criteria_results(application, county_name, content) ==
  [ E1_registration_legality |-> Legacy_evaluate_registration_legality(application, content),
    E2_county_mapping |-> Legacy_evaluate_county_mapping(application, county_name, content),
    E3_priority_value_chain |-> Legacy_evaluate_value_chain(application, content),
    E4_financial_evidence |-> Legacy_evaluate_financial_evidence(application, content),
    E5_consent_contactability |-> Legacy_evaluate_contactability(application, content) ]

\* number of the keywords of kws found in the content
CountKw(kws, content) == Cardinality({kw \in kws : KwIn(kw, content)})

Min(a, b) == IF a < b THEN a ELSE b

\* years_operational: the first pattern match (one dated snippet at most)
YearsOf(content) ==
  IF \E s \in content.snips : s \in Snippets /\ YearsOperational[s] > 0
  THEN YearsOperational[CHOOSE s \in content.snips : s \in Snippets /\ YearsOperational[s] > 0]
  ELSE 0

Legacy_score_registration_track_record(application, content) ==
  LET has_governance ==
        AnyKw({"board", "directors", "elected officials", "minutes", "meetings", "governance",
               "audited", "handover", "constitution", "bylaws"}, content)
      has_leadership ==
        AnyKw({"chairman", "chairperson", "secretary", "treasurer", "ceo", "managing director",
               "executive", "leadership"}, content)
  IN Min(5,
       IF YearsOf(content) >= 3 /\ has_governance THEN 5
       ELSE IF YearsOf(content) >= 1 /\ (has_leadership \/ has_governance) THEN 4
       ELSE IF YearsOf(content) >= 1 \/ KwIn("registered", content) THEN 3
       ELSE IF KwIn("registration", content) /\ AnyKw({"dormant", "irregular"}, content) THEN 2
       ELSE IF AnyKw({"registration", "company", "cooperative"}, content) THEN 1
       ELSE 0)

\* turnover_amount >= threshold, the amounts being multiplied by 1000000 when
\* "million" or "m" occurs in the content (threshold a multiple of 1000000)
TurnoverAtLeast(content, threshold) ==
  \E s \in content.snips :
     /\ s \in Snippets
     /\ \E a \in CurrencyAmounts[s] :
           IF AnyKw({"million", "m"}, content) THEN a >= threshold \div 1000000
           ELSE a >= threshold

Legacy_score_financial_position(application, content) ==
  LET has_positive_trend ==
        AnyKw({"positive", "growth", "increase", "improving", "rising", "up"}, content)
      has_statements ==
        AnyKw({"balance sheet", "income statement", "cash flow", "bank statement",
               "mpesa statement", "financial statement", "audited accounts"}, content)
      has_financial_docs == Cardinality(Get(application, "financial_documents", {})) > 0
  IN Min(5,
       IF /\ TurnoverAtLeast(content, 10000000)
          /\ has_positive_trend
          /\ (has_statements \/ has_financial_docs) THEN 5
       ELSE IF TurnoverAtLeast(content, 5000000) /\ (has_statements \/ has_financial_docs) THEN 4
       ELSE IF TurnoverAtLeast(content, 1000000) /\ (has_statements \/ has_financial_docs) THEN 3
       ELSE IF TurnoverAtLeast(content, 1000000) \/ has_statements \/ has_financial_docs THEN 2
       ELSE IF AnyKw({"financial", "bank", "transaction"}, content) THEN 1
       ELSE 0)

Legacy_score_market_demand(application, content) ==
  LET has_contracts ==
        AnyKw({"contract", "purchase order", "offtake agreement", "buyer agreement",
               "supply agreement", "distribution agreement"}, content)
      channel_count ==
        CountKw({"wholesale", "retail", "digital", "marketplace", "online", "export"}, content)
      has_repeat_customers ==
        AnyKw({"repeat customers", "regular buyers", "loyal customers", "returning clients",
               "established relationships", "long-term clients"}, content)
      has_quality_positioning ==
        AnyKw({"quality assurance", "certification", "standards", "premium pricing",
               "competitive pricing", "brand", "differentiation"}, content)
      has_consistent_orders ==
        AnyKw({"monthly orders", "consistent orders", "regular orders", "steady demand"}, content)
  IN Min(5,
       IF has_contracts /\ channel_count >= 2 /\ has_repeat_customers /\ has_quality_positioning
       THEN 5
       ELSE IF has_consistent_orders /\ channel_count >= 1 /\ has_quality_positioning THEN 4
       ELSE IF AnyKw({"sales", "customers"}, content) /\ channel_count >= 1 THEN 3
       ELSE IF AnyKw({"sales", "customers"}, content) THEN 2
       ELSE IF AnyKw({"market", "demand"}, content) THEN 1
       ELSE 0)

\* the threshold ladder shared by the signal-count scorers
Ladder(signals, t5, t4, t3, t2, t1) ==
  IF signals >= t5 THEN 5
  ELSE IF signals >= t4 THEN 4
  ELSE IF signals >= t3 THEN 3
  ELSE IF signals >= t2 THEN 2
  ELSE IF signals >= t1 THEN 1
  ELSE 0

Legacy_score_business_proposal(application, content) ==
  Min(5, Ladder(CountKw({"objectives", "targets", "plan", "budget", "strategy", "growth",
                         "feasibility"}, content), 6, 4, 3, 2, 1))

Legacy_score_value_chain_alignment(application, content) ==
  LET vc_signals ==
        CountKw({"processing", "manufacturing", "aggregation", "linkages"}, content)
        + (IF AnyKw({"upstream", "downstream"}, content) THEN 1 ELSE 0)
  IN Min(5,
       IF Legacy_evaluate_value_chain(application, content)
       THEN IF vc_signals >= 4 THEN 5
            ELSE IF vc_signals >= 3 THEN 4
            ELSE IF vc_signals >= 2 THEN 3
            ELSE 2
       ELSE 1)

Legacy_score_inclusivity_sustainability(application, content) ==
  LET total_signals ==
        CountKw({"women", "youth", "female", "young", "diversity"}, content)
        + (IF AnyKw({"disabled", "pwd"}, content) THEN 1 ELSE 0)
        + CountKw({"environment", "sustainable", "green", "recycling", "efficiency"}, content)
  IN Min(5,
       IF total_signals >= 5 THEN 5
       ELSE IF total_signals >= 3 THEN 4
       ELSE IF total_signals >= 2 THEN 3
       ELSE IF total_signals >= 1 THEN 2
       ELSE 0)

Legacy_scores(application, content) ==
  [ registration_track_record |->
      Num(Legacy_score_registration_track_record(application, content)),
    financial_position |-> Num(Legacy_score_financial_position(application, content)),
    market_demand_competitiveness |-> Num(Legacy_score_market_demand(application, content)),
    business_proposal_viability |-> Num(Legacy_score_business_proposal(application, content)),
    value_chain_alignment |-> Num(Legacy_score_value_chain_alignment(application, content)),
    inclusivity_sustainability |->
      Num(Legacy_score_inclusivity_sustainability(application, content)) ]

\* KJETCountyEvaluator._score_application of county_evaluator.py
Legacy_score_application(application, content) ==
  ScoringBlock(Legacy_scores(application, content), Legacy_primary_criteria_weights, Criteria)

Legacy_EvaluateWith(application, content, eligibility) ==
  IF eligibility.eligible
  THEN WithScoring(EvaluationOf(application, eligibility),
                   Legacy_score_application(application, content))
  ELSE EvaluationOf(application, eligibility)

\* KJETCountyEvaluator.evaluate_single_application of county_evaluator.py
Legacy_evaluate_single_application(application, county_name, content) ==
  Legacy_EvaluateWith(application, content,
     EligibilityOf(Legacy_criteria_results(application, county_name, content)))

\* ------------------------------ agentic_csv_generator.evaluate_county
\* the weights configuration of evaluate_county, in hundredths
Agentic_weights(c) ==
  IF c = "c1"
  THEN [reg |-> 10, fin |-> 20, mkt |-> 20, prop |-> 25, vc |-> 15, inc |-> 10]
  ELSE [reg |-> 5, fin |-> 20, mkt |-> 20, prop |-> 25, vc |-> 10, inc |-> 20]

\* c_score of evaluate_county in units of 1/10000, s the six raw scores s1..s6
Agentic_c_score(s, weights) ==
  ((s[1] * 100) \div 5) * weights["reg"] + ((s[2] * 100) \div 5) * weights["fin"]
  + ((s[3] * 100) \div 5) * weights["mkt"] + ((s[4] * 100) \div 5) * weights["prop"]
  + ((s[5] * 100) \div 5) * weights["vc"] + ((s[6] * 100) \div 5) * weights["inc"]

\* ----------------------------------------------------------- the inputs
S_cert == "Certificate of Registration No. BN-1234"
S_coop == "We are a registered dairy cooperative in Baringo county, Marigat ward"
S_bank == "bank statement and mpesa records attached"
S_plan == "Our market plan targets buyers; contact phone 0712345678"
S_tea == "Tea processing group"
S_plot == "Plot 5, founded 2019"

Counties == {"Baringo", "Nakuru"}

AppJson(county, short, name, info, fin) ==
  [ application_id |-> <<county, short>>,
    applicant_name |-> name,
    application_info |-> info,
    financial_documents |-> fin ]

AppPool(c) ==
  IF c = "Baringo"
  THEN << AppJson(c, "A1", "Kampi Dairy Cooperative Society Limited", {S_coop, S_plan}, {S_bank}),
          AppJson(c, "A2", "Kampi Dairy Cooperative Society Limited", {S_coop, S_plan, S_bank}, {}),
          AppJson(c, "A3", "Marigat Farmers Group", {S_coop, S_plan}, {S_bank}),
          AppJson(c, "A4", "Marigat Farmers Group", {S_plot}, {}) >>
  ELSE << AppJson(c, "A1", "Marigat Farmers Group", {S_cert, S_tea}, {S_bank}),
          AppJson(c, "A2", "Marigat Farmers Group", {S_coop, S_plan, S_bank}, {}) >>

\* the rows of <county>_kjet_forms.csv (no such file for Nakuru)
CsvOf(c) ==
  IF c = "Baringo"
  THEN << [app_id |-> "A1", registration_number |-> "PVT-XY12", business_objectives |-> 250,
           turnover_2024 |-> "1,000,000", value_chain |-> "Dairy (excluding farming)"],
          [app_id |-> "A2", registration_status |-> "Business Name", business_objectives |-> 100,
           turnover_2024 |-> "", turnover_2023 |-> "7,500,000", value_chain |-> "Tea"],
          [app_id |-> "A3", registration_number |-> "PVT-XY12", business_objectives |-> 250,
           turnover_2024 |-> "1,000,000", value_chain |-> "Dairy (excluding farming)"] >>
  ELSE << >>

PriorRecord(id, rank, county, total, a) ==
  [ k \in {"Application ID", "Ranking from composite score", "E2. County Mapping", "TOTAL",
           "A3.1", "A3.2", "A3.3", "A3.4", "A3.5", "A3.6"} |->
    CASE k = "Application ID" -> <<id>>
      [] k = "Ranking from composite score" -> rank
      [] k = "E2. County Mapping" -> county
      [] k = "TOTAL" -> Num(total)
      [] k = "A3.1" -> Num(a[1])
      [] k = "A3.2" -> Num(a[2])
      [] k = "A3.3" -> Num(a[3])
      [] k = "A3.4" -> Num(a[4])
      [] k = "A3.5" -> Num(a[5])
      [] k = "A3.6" -> Num(a[6]) ]

PriorPool ==
  << PriorRecord("X1", 3, "Baringo", 72, <<80, 70, 60, 80, 100, 60>>),
    PriorRecord("X2", 4, "baringo", 75, <<100, 80, 80, 60, 80, 80>>),
    PriorRecord("X3", 2, "Baringo", 90, <<100, 100, 80, 80, 100, 80>>),
    PriorRecord("X4", 5, "Nakuru", 60, <<60, 60, 60, 60, 60, 60>>),
    PriorRecord("X5", 3, "Nakuru", 62, <<60, 60, 60, 60, 80, 60>>) >>

\* the subsequences of at most n elements of seq
PickSeq(seq, I) ==
  LET F[k \in 0..Len(seq)] ==
        IF k = 0 THEN <<>>
        ELSE IF k \in I THEN Append(F[k - 1], seq[k]) ELSE F[k - 1]
  IN F[Len(seq)]

SubSeqs(seq, n) == { PickSeq(seq, I) : I \in { J \in SUBSET DOMAIN seq : Cardinality(J) <= n } }

Perms(S) == { q \in [1..Cardinality(S) -> S] : \A i, j \in DOMAIN q : i # j => q[i] # q[j] }

\* ------------------------------------------------------------ the state
\* cohort, files, c1_file: the configuration and the files on disk
\* counties_data, analysis_results: the attributes of the KJETAnalyzer
\* c1_alternates: what load_cohort1_alternates returned to the last run
\* reports: the successive contents of kjet_statistics_report.json
\* eval_in, eval_out: argument and result of a single-application evaluation
\* users, session, request, response: the auth_user table, the logged-in user of
\*   the client's session, the last request of the client and its response
\* applications, evaluation_results, frame, sigalrm: the argument, the result
\*   and the locals of evaluate_county_applications, and the SIGALRM handler
\*   and timer of the process
VARIABLES cohort, files, c1_file, counties_data, analysis_results, c1_alternates,
          reports, runs, status, eval_in, eval_out,
          users, session, request, response,
          applications, evaluation_results, frame, sigalrm

vars == << cohort, files, c1_file, counties_data, analysis_results, c1_alternates,
           reports, runs, status, eval_in, eval_out,
           users, session, request, response,
           applications, evaluation_results, frame, sigalrm >>

accounts_vars == << users, session, request, response >>

evaluator_vars == << applications, evaluation_results, frame, sigalrm >>

\* no request was served
NoRequest == [none |-> TRUE]

Anonymous == "AnonymousUser"

AccountsIdle ==
  /\ users = EmptyDict
  /\ session = Anonymous
  /\ request = NoRequest
  /\ response = NoRequest

\* evaluate_county_applications was not called
NotCalled == [pc |-> "not called"]

EvaluatorIdle ==
  /\ applications = <<>>
  /\ evaluation_results = NotCalled
  /\ frame = NotCalled
  /\ sigalrm = [handler |-> "SIG_DFL", alarm |-> FALSE]

NoEval == [none |-> TRUE]

\* the attributes set by KJETAnalyzer.__init__
NewCountiesData == [order |-> <<>>, data |-> EmptyDict]

NewAnalysisResults(c) ==
  [ metadata |-> [ cohort |-> c, total_counties |-> 0, total_applications |-> 0,
                   eligible_applications |-> 0, scored_applications |-> 0 ],
    county_summary |-> EmptyDict,
    detailed_results |-> <<>> ]

Reverse(seq) == [ i \in DOMAIN seq |-> seq[Len(seq) + 1 - i] ]

\* the applications array of a county file: at most MaxApps applications of
\* the pool, in the pool's order or in the reverse order
FilesOf(c) == SubSeqs(AppPool(c), MaxApps) \cup SubSeqs(Reverse(AppPool(c)), MaxApps)

FileChoices ==
  { fa \in [Counties -> UNION { FilesOf(c) : c \in Counties }] :
    \A c \in Counties : fa[c] \in FilesOf(c) }

Init ==
  /\ cohort \in Cohorts
  /\ files \in { [c \in Counties |-> [applications |-> fa[c], csv |-> CsvOf(c)]] :
                   fa \in FileChoices }
  /\ c1_file \in { [exists |-> FALSE, records |-> <<>>] }
                 \cup { [exists |-> TRUE, records |-> r] :
                          r \in IF cohort = "latest" THEN SubSeqs(PriorPool, MaxPrior) ELSE {<<>>} }
  /\ counties_data = NewCountiesData
  /\ analysis_results = NewAnalysisResults(cohort)
  /\ c1_alternates = EmptyDict
  /\ reports = <<>>
  /\ runs = 0
  /\ status = "ready"
  /\ eval_in = NoEval
  /\ eval_out = NoEval
  /\ AccountsIdle
  /\ EvaluatorIdle

\* the tail of one pass of the county loop: summary and detailed results
Summarise(acc, county_name, apps, county_results, pool, ranked) ==
  [ acc EXCEPT
    !.total_apps = @ + Len(apps),
    !.eligible_total = @ + Len(county_results),
    !.county_summary =
       [ k \in DOMAIN @ \cup {county_name} |->
         IF k = county_name
         THEN [ total |-> Len(apps),
                eligible |-> Len(SelectSeq(pool, LAMBDA r : ~Get(r, "is_c1_alternate", FALSE))),
                rankings |-> ranked ]
         ELSE @[k] ],
    !.detailed_results = @ \o ranked ]

\* sorting, ranking and tiering of one county's pool
RankPool(acc, county_name, apps, county_results, pool, strategy, top_n) ==
  IF \E j \in DOMAIN pool : SortKeyRaises(pool[j], get_tie_breaker_order(strategy))
  THEN [acc EXCEPT !.raised = TRUE]
  ELSE Summarise(acc, county_name, apps, county_results, pool,
         AssignRanks(StableSort(pool, get_tie_breaker_order(strategy)), strategy, top_n))

\* alternates are blended into the first county of the loop only
RankCounty_first_blend(acc, county_name, apps, county_results, alternates, c) ==
  RankPool(acc, county_name, apps, county_results,
           IF acc.total_apps = 0 THEN Blend(county_results, county_name, alternates)
           ELSE county_results,
           StrategyOf(c), TopNOf(c))

\* one pass of the county loop of run_analysis
RankCounty(acc, county_name, apps, county_results, alternates, c) ==
  RankPool(acc, county_name, apps, county_results,
           Blend(county_results, county_name, alternates), StrategyOf(c), TopNOf(c))

\* the county loop of run_analysis over order[i..]; acc holds the locals and
\* the parts of analysis_results written so far
RECURSIVE RankCounties(_, _, _, _, _)
RankCounties(cd, i, alternates, c, acc) ==
  IF i > Len(cd.order) \/ acc.raised THEN acc
  ELSE IF \E n \in DOMAIN cd.data[cd.order[i]].applications :
             AppRaises(StrategyOf(c), cd.data[cd.order[i]].applications[n],
                       ExtractContent(cd.data[cd.order[i]].applications[n]))
  THEN [acc EXCEPT !.raised = TRUE]
  ELSE RankCounties(cd, i + 1, alternates, c,
         RankCounty(acc, cd.order[i], cd.data[cd.order[i]].applications,
           CountyResults(StrategyOf(c), get_scoring_weights(StrategyOf(c)), cd.order[i],
                         cd.data[cd.order[i]].applications),
           alternates, c))

\* what run_analysis leaves in self.analysis_results
ResultOf(old, cd, acc) ==
  [ metadata |->
      IF acc.raised THEN [old.metadata EXCEPT !.total_counties = Len(cd.order)]
      ELSE [old.metadata EXCEPT !.total_counties = Len(cd.order),
                                !.total_applications = acc.total_apps,
                                !.eligible_applications = acc.eligible_total,
                                !.scored_applications = acc.eligible_total],
    county_summary |-> acc.county_summary,
    detailed_results |-> acc.detailed_results ]

\* KJETAnalyzer.run_analysis
RunAnalysis ==
  /\ status \in {"ready", "done"}
  /\ runs < MaxRuns
  /\ \E listing \in Perms(DOMAIN files) :
     \E cd \in {load_county_data(counties_data, files, listing)} :
     \E alts \in { IF cohort = "latest" THEN load_cohort1_alternates(c1_file)
                   ELSE EmptyDict } :
     \E acc \in { RankCounties(cd, 1, alts, cohort,
                    [ total_apps |-> 0, eligible_total |-> 0, raised |-> FALSE,
                      county_summary |-> analysis_results.county_summary,
                      detailed_results |-> analysis_results.detailed_results ]) } :
     \E result \in {ResultOf(analysis_results, cd, acc)} :
          /\ counties_data' = cd
          /\ c1_alternates' = alts
          /\ analysis_results' = result
          /\ reports' = IF acc.raised THEN reports ELSE Append(reports, result)
          /\ status' = IF acc.raised THEN "raised" ELSE "done"
  /\ runs' = runs + 1
  /\ UNCHANGED << cohort, files, c1_file, eval_in, eval_out, accounts_vars, evaluator_vars >>

\* a new KJETAnalyzer(cohort=...) over the same directories
NewAnalyzer ==
  /\ status # "ready"
  /\ runs < MaxRuns
  /\ counties_data' = NewCountiesData
  /\ analysis_results' = NewAnalysisResults(cohort)
  /\ c1_alternates' = EmptyDict
  /\ status' = "ready"
  /\ UNCHANGED << cohort, files, c1_file, reports, runs, eval_in, eval_out,
                  accounts_vars, evaluator_vars >>

Next == RunAnalysis \/ NewAnalyzer

Spec == Init /\ [][Next]_vars

\* --------------------------------------------- a county with a long list
\* eight eligible applications of Baringo and their rows of Baringo_kjet_forms.csv
LargePool ==
  [ i \in 1..8 |->
    AppJson("Baringo", <<"B1", "B2", "B3", "B4", "B5", "B6", "B7", "B8">>[i],
            "Marigat Farmers Group", {S_coop, S_plan}, {S_bank}) ]

LargeCsv ==
  << [app_id |-> "B1", registration_status |-> "Limited", turnover_2024 |-> "12,000,000",
      exports_percent |-> "20", business_objectives |-> 250, woman_owned_enterprise |-> "Yes"],
     [app_id |-> "B2", registration_status |-> "Limited", turnover_2024 |-> "7,500,000",
      b2b_description |-> "Supplies hotels", business_objectives |-> 100,
      woman_owned_enterprise |-> "Yes"],
     [app_id |-> "B3", registration_status |-> "Business Name", turnover_2024 |-> "7,500,000",
      b2b_description |-> "Supplies hotels", business_objectives |-> 100,
      woman_owned_enterprise |-> "No"],
     [app_id |-> "B4", registration_number |-> "PVT-XY12", turnover_2024 |-> "1,000,000",
      business_objectives |-> 250],
     [app_id |-> "B5", registration_status |-> "Limited", turnover_2024 |-> "7,500,000",
      b2b_description |-> "Supplies hotels", business_objectives |-> 40],
     [app_id |-> "B6", registration_status |-> "Limited", turnover_2024 |-> "7,500,000",
      business_objectives |-> 40],
     [app_id |-> "B7", registration_number |-> "PVT-XY12", turnover_2024 |-> "1,000,000",
      business_objectives |-> 40],
     [app_id |-> "B8", registration_number |-> "PVT-XY12", turnover_2024 |-> "500,000",
      business_objectives |-> 40] >>

LargePrior ==
  << PriorRecord("X1", 3, "Baringo", 72, <<80, 70, 60, 80, 100, 60>>),
     PriorRecord("X6", 4, "Baringo", 55, <<60, 40, 60, 60, 60, 40>>),
     PriorRecord("X3", 2, "Baringo", 90, <<100, 100, 80, 80, 100, 80>>) >>

LargeFiles ==
  { q \in SubSeqs(LargePool, MaxLarge) \cup SubSeqs(Reverse(LargePool), MaxLarge) :
      Len(q) >= 6 }

InitLarge ==
  /\ cohort \in Cohorts
  /\ files \in { [c \in Counties |->
                    IF c = "Baringo" THEN [applications |-> q, csv |-> LargeCsv]
                    ELSE [applications |-> AppPool(c), csv |-> CsvOf(c)]] :
                  q \in LargeFiles }
  /\ c1_file \in { [exists |-> FALSE, records |-> <<>>] }
                 \cup { [exists |-> TRUE, records |-> r] :
                          r \in IF cohort = "latest" THEN SubSeqs(LargePrior, MaxPrior) ELSE {<<>>} }
  /\ counties_data = NewCountiesData
  /\ analysis_results = NewAnalysisResults(cohort)
  /\ c1_alternates = EmptyDict
  /\ reports = <<>>
  /\ runs = 0
  /\ status = "ready"
  /\ eval_in = NoEval
  /\ eval_out = NoEval
  /\ AccountsIdle
  /\ EvaluatorIdle

SpecLarge == InitLarge /\ [][Next]_vars

\* ------------------------------------------ files with faulty records
\* Baringo applications A5 and A6 have rows of Baringo_kjet_forms.csv that
\* are shorter than the header: DictReader fills the missing columns with None
FaultyPool ==
  << AppPool("Baringo")[1],
     AppJson("Baringo", "A5", "Marigat Farmers Group", {S_coop, S_plan}, {S_bank}),
     AppPool("Baringo")[2],
     AppJson("Baringo", "A6", "Marigat Farmers Group", {S_coop, S_plan}, {S_bank}) >>

FaultyCsv ==
  CsvOf("Baringo")
  \o << [app_id |-> "A5", registration_status |-> "Limited", value_chain |-> NoneVal,
         woman_owned_enterprise |-> NoneVal],
        [app_id |-> "A6", registration_status |-> "Limited", value_chain |-> "Dairy",
         woman_owned_enterprise |-> NoneVal] >>

\* prior-round records: X7 has "A3.2": null, X8 has "TOTAL": null and X9
\* has "A3.1": 120
FaultyPrior ==
  << PriorRecord("X9", 3, "Baringo", 80, <<120, 70, 60, 80, 100, 60>>),
     PriorRecord("X1", 3, "Baringo", 72, <<80, 70, 60, 80, 100, 60>>),
     [PriorRecord("X7", 3, "Baringo", 70, <<80, 70, 60, 80, 100, 60>>) EXCEPT !["A3.2"] = Null],
     PriorRecord("X2", 4, "baringo", 75, <<100, 80, 80, 60, 80, 80>>),
     [PriorRecord("X8", 4, "Baringo", 0, <<60, 60, 60, 60, 60, 60>>) EXCEPT !["TOTAL"] = Null] >>

FaultyFiles == SubSeqs(FaultyPool, MaxApps) \cup SubSeqs(Reverse(FaultyPool), MaxApps)

InitFaulty ==
  /\ cohort \in Cohorts
  /\ files \in { [c \in Counties |->
                    IF c = "Baringo" THEN [applications |-> q, csv |-> FaultyCsv]
                    ELSE [applications |-> AppPool(c), csv |-> CsvOf(c)]] :
                  q \in FaultyFiles }
  /\ c1_file \in { [exists |-> FALSE, records |-> <<>>] }
                 \cup { [exists |-> TRUE, records |-> r] :
                          r \in IF cohort = "latest" THEN SubSeqs(FaultyPrior, MaxPrior) ELSE {<<>>} }
  /\ counties_data = NewCountiesData
  /\ analysis_results = NewAnalysisResults(cohort)
  /\ c1_alternates = EmptyDict
  /\ reports = <<>>
  /\ runs = 0
  /\ status = "ready"
  /\ eval_in = NoEval
  /\ eval_out = NoEval
  /\ AccountsIdle
  /\ EvaluatorIdle

SpecFaulty == InitFaulty /\ [][Next]_vars

\* ------------------------------------- evaluation of one application
SubsetsUpTo(S, n) == { T \in SUBSET S : Cardinality(T) <= n }

EvalCsvRows ==
  { [ registration_status |-> "Limited", turnover_2024 |-> "12,000,000",
      business_objectives |-> 250, exports_percent |-> "20",
      woman_owned_enterprise |-> "Yes", value_chain |-> "Tea" ],
    [ registration_status |-> "Unregistered", turnover_2024 |-> "",
      turnover_2023 |-> "n/a", value_chain |-> "Poultry" ],
    [ registration_number |-> "PVT-XY12", turnover_2024 |-> "5,000,000",
      b2b_description |-> "Supplies hotels", business_objectives |-> 100 ],
    [ registration_status |-> "Business Name", turnover_2024 |-> "10,000,000",
      value_chain_other |-> "Dairy (excluding farming)" ] }

EvalApps ==
  { AppJson("Baringo", "A1", name, info, fin) :
      name \in Names, info \in SubsetsUpTo(Snippets, MaxSnips), fin \in {{}, {S_bank}} }
  \cup
  { MergeCsv(AppJson("Baringo", "A1", name, info, fin), [A1 |-> row]) :
      name \in Names, info \in SubsetsUpTo(Snippets, MaxSnips), fin \in {{}, {S_bank}},
      row \in EvalCsvRows }

InitEval ==
  /\ cohort \in Cohorts
  /\ files = [c \in Counties |-> [applications |-> <<>>, csv |-> <<>>]]
  /\ c1_file = [exists |-> FALSE, records |-> <<>>]
  /\ counties_data = NewCountiesData
  /\ analysis_results = NewAnalysisResults(cohort)
  /\ c1_alternates = EmptyDict
  /\ reports = <<>>
  /\ runs = 0
  /\ status = "ready"
  /\ eval_in \in { [application |-> a, county_name |-> "Baringo",
                     scoring_weights |-> get_scoring_weights(StrategyOf(cohort))] :
                   a \in EvalApps }
  /\ eval_out = NoEval
  /\ AccountsIdle
  /\ EvaluatorIdle

EvalUnchanged ==
  UNCHANGED << cohort, files, c1_file, counties_data, analysis_results, c1_alternates,
               reports, runs, status, eval_in, accounts_vars, evaluator_vars >>

\* one pass of the application loop of KJETAnalyzer.run_analysis
AnalyzeApplication ==
  /\ eval_in # NoEval /\ eval_out = NoEval
  /\ \E content \in {ExtractContent(eval_in.application)} :
       eval_out' =
         IF AppRaises(StrategyOf(cohort), eval_in.application, content)
         THEN [by |-> "KJETAnalyzer", raised |-> TRUE]
         ELSE
         [ by |-> "KJETAnalyzer",
           eligibility |-> analyze_eligibility(StrategyOf(cohort), eval_in.application, content),
           county_results |->
             AppResults(StrategyOf(cohort), eval_in.scoring_weights,
                        eval_in.county_name, eval_in.application, content) ]
  /\ EvalUnchanged

\* KJETCountyEvaluator.evaluate_single_application (scripts/evaluation)
EvaluateSingleApplication ==
  /\ eval_in # NoEval /\ eval_out = NoEval
  /\ eval_out' =
       IF AppRaises(StrategyOf(cohort), eval_in.application,
                    extract_application_content(eval_in.application))
       THEN [by |-> "KJETCountyEvaluator", raised |-> TRUE]
       ELSE
       [ by |-> "KJETCountyEvaluator",
         evaluation |->
           evaluate_single_application(StrategyOf(cohort),
             eval_in.scoring_weights, eval_in.application,
             extract_application_content(eval_in.application)) ]
  /\ EvalUnchanged

\* KJETCountyEvaluator.evaluate_single_application (county_evaluator.py)
LegacyEvaluateSingleApplication ==
  /\ eval_in # NoEval /\ eval_out = NoEval
  /\ eval_out' =
       [ by |-> "county_evaluator.KJETCountyEvaluator",
         evaluation |->
           Legacy_evaluate_single_application(eval_in.application, eval_in.county_name,
             Legacy_extract_application_content(eval_in.application)) ]
  /\ EvalUnchanged

NextEval == AnalyzeApplication \/ EvaluateSingleApplication \/ LegacyEvaluateSingleApplication

SpecEval == InitEval /\ [][NextEval]_vars

\* -------------------------- evaluation under a strategy's weight table
\* what a strategy's get_scoring_weights may return: the cohort's table, the
\* table without one criterion, the table with one weight raised
WeightChoices(c) ==
  { get_scoring_weights(StrategyOf(c)),
    [ k \in Criteria \ {"inclusivity_sustainability"} |->
        get_scoring_weights(StrategyOf(c))[k] ],
    [ get_scoring_weights(StrategyOf(c)) EXCEPT !["value_chain_alignment"] = 15 ] }

InitWeights ==
  /\ cohort \in Cohorts
  /\ files = [c \in Counties |-> [applications |-> <<>>, csv |-> <<>>]]
  /\ c1_file = [exists |-> FALSE, records |-> <<>>]
  /\ counties_data = NewCountiesData
  /\ analysis_results = NewAnalysisResults(cohort)
  /\ c1_alternates = EmptyDict
  /\ reports = <<>>
  /\ runs = 0
  /\ status = "ready"
  /\ eval_in \in { [application |-> a, county_name |-> "Baringo", scoring_weights |-> w] :
                   a \in EvalApps, w \in WeightChoices(cohort) }
  /\ eval_out = NoEval
  /\ AccountsIdle
  /\ EvaluatorIdle

NextWeights == AnalyzeApplication \/ EvaluateSingleApplication

SpecWeights == InitWeights /\ [][NextWeights]_vars

\* ------------------------------------------- applications without data
\* csv_metadata of an application whose structured fields are absent, empty
\* or None
EmptyCsvFields ==
  { "registration_status", "registration_number", "value_chain", "value_chain_other",
    "turnover_2024", "turnover_2023" }

EmptyRows == UNION { [D -> {"", NoneVal}] : D \in SUBSET EmptyCsvFields }

\* no application_info and no financial documents
EmptyApps ==
  { AppJson("Baringo", "A1", name, {}, {}) : name \in Names }
  \cup { MergeCsv(AppJson("Baringo", "A1", name, {}, {}), [A1 |-> row]) :
           name \in Names, row \in EmptyRows }

InitEmpty ==
  /\ cohort \in Cohorts
  /\ files = [c \in Counties |-> [applications |-> <<>>, csv |-> <<>>]]
  /\ c1_file = [exists |-> FALSE, records |-> <<>>]
  /\ counties_data = NewCountiesData
  /\ analysis_results = NewAnalysisResults(cohort)
  /\ c1_alternates = EmptyDict
  /\ reports = <<>>
  /\ runs = 0
  /\ status = "ready"
  /\ eval_in \in { [application |-> a, county_name |-> "Baringo",
                     scoring_weights |-> get_scoring_weights(StrategyOf(cohort))] :
                   a \in EmptyApps }
  /\ eval_out = NoEval
  /\ AccountsIdle
  /\ EvaluatorIdle

CheckContents == { EmptyText, Append1(EmptyText, S_cert) }

\* a call strategy.check_eligibility(application, content)
CheckEligibility ==
  /\ eval_in # NoEval /\ eval_out = NoEval
  /\ \E content \in CheckContents :
       eval_out' =
         IF check_eligibility_raises(StrategyOf(cohort), eval_in.application, content)
         THEN [by |-> "Strategy", content |-> content, raised |-> TRUE]
         ELSE [ by |-> "Strategy", content |-> content,
                criteria |-> check_eligibility(StrategyOf(cohort), eval_in.application, content) ]
  /\ EvalUnchanged

NextEmpty == CheckEligibility \/ EvaluateSingleApplication

SpecEmpty == InitEmpty /\ [][NextEmpty]_vars

\* ================================================= properties checked
\* the eligibility dict an evaluation produced
OutEligibility ==
  IF eval_out.by = "KJETAnalyzer" THEN eval_out.eligibility
  ELSE eval_out.evaluation.eligibility

FiveGates(criteria_results) ==
  /\ criteria_results["E1_registration_legality"]
  /\ criteria_results["E2_county_mapping"]
  /\ criteria_results["E3_priority_value_chain"]
  /\ criteria_results["E4_financial_evidence"]
  /\ criteria_results["E5_consent_contactability"]

OutScored ==
  /\ eval_out # NoEval
  /\ eval_out.by # "county_evaluator.KJETCountyEvaluator"
  /\ IF eval_out.by = "KJETAnalyzer" THEN Len(eval_out.county_results) = 1
     ELSE "scoring" \in DOMAIN eval_out.evaluation

OutRaw ==
  IF eval_out.by = "KJETAnalyzer" THEN eval_out.county_results[1].scores
  ELSE eval_out.evaluation.scoring.criteria_scores

OutComposite ==
  IF eval_out.by = "KJETAnalyzer" THEN eval_out.county_results[1].composite_score
  ELSE eval_out.evaluation.scoring.composite_score

\* sum over the six criteria of raw / 5 * 100 * weight, in units of 1/10000
ExpectedTotal(raw, w) ==
  raw["registration_track_record"] * 20 * w["registration_track_record"]
  + raw["financial_position"] * 20 * w["financial_position"]
  + raw["market_demand_competitiveness"] * 20 * w["market_demand_competitiveness"]
  + raw["business_proposal_viability"] * 20 * w["business_proposal_viability"]
  + raw["value_chain_alignment"] * 20 * w["value_chain_alignment"]
  + raw["inclusivity_sustainability"] * 20 * w["inclusivity_sustainability"]

\* C2: with the six raw scores in 0..5 the composite equals the weighted sum
\* of raw/5*100*weight under the cohort's weights, rounded to two decimals,
\* and lies between 0 and 100.
C2_CompositeIsWeightedSum ==
  (OutScored /\ \A c \in Criteria : OutRaw[c] \in { Num(n) : n \in 0..5 }) =>
     /\ (Fx * OutComposite
           - ExpectedTotal(OutRaw, get_scoring_weights(StrategyOf(cohort)))) \in -50..50
     /\ OutComposite >= 0
     /\ OutComposite <= Num(100)

\* C2 witness: an eligible application scored 98.00 by the analyzer
C2_Witness ==
  /\ OutScored
  /\ eval_out.by = "KJETAnalyzer"
  /\ OutComposite = 9800

\* the ranked list run_analysis left for county c
Rankings(c) == analysis_results.county_summary[c].rankings

RankedCounties == DOMAIN analysis_results.county_summary

CurrentOf(R) == SelectSeq(R, LAMBDA r : ~r.is_c1_alternate)

AlternatesOf(R) == SelectSeq(R, LAMBDA r : r.is_c1_alternate)

\* C3: after run_analysis the rank values of a county's entries are exactly
\* 1..N, N the size of the county's pool, each used once, for every pool size
\* including 0 and for pools with tied scores.
C3_RanksAreOneToN ==
  \A c \in RankedCounties :
     /\ \A j \in DOMAIN Rankings(c) : Rankings(c)[j].rank \in 1..Len(Rankings(c))
     /\ \A n \in 1..Len(Rankings(c)) :
          Cardinality({ j \in DOMAIN Rankings(c) : Rankings(c)[j].rank = n }) = 1

\* C3 witness: one county ranked with an empty pool, another with an alternate
\* blended in and two entries tied on the composite
C3_Witness ==
  /\ status = "done"
  /\ \E c \in RankedCounties : Len(Rankings(c)) = 0
  /\ \E c \in RankedCounties :
       /\ Len(AlternatesOf(Rankings(c))) > 0
       /\ \E i, j \in DOMAIN Rankings(c) :
            i < j /\ Rankings(c)[i].composite_score = Rankings(c)[j].composite_score

\* C4: an entry's tier is non-null exactly when its rank is at most top_n
\* (6 for cohort "latest", 2 otherwise), for current entries and alternates.
C4_TierIffWithinTopN ==
  \A c \in RankedCounties : \A j \in DOMAIN Rankings(c) :
     (Rankings(c)[j].tier # NoneVal)
       <=> (Rankings(c)[j].rank <= (IF cohort = "latest" THEN 6 ELSE 2))

\* C4 witness: under "latest" a current entry and an alternate both ranked
\* beyond 6 with tier None, while rank 6 holds a tier
C4_Witness ==
  /\ cohort = "latest"
  /\ \E c \in RankedCounties :
       /\ \E j \in DOMAIN Rankings(c) :
            Rankings(c)[j].rank = 6 /\ Rankings(c)[j].tier # NoneVal
       /\ \E j \in DOMAIN Rankings(c) :
            /\ Rankings(c)[j].is_c1_alternate
            /\ Rankings(c)[j].rank > 6 /\ Rankings(c)[j].tier = NoneVal
       /\ \E j \in DOMAIN Rankings(c) :
            /\ ~Rankings(c)[j].is_c1_alternate
            /\ Rankings(c)[j].rank > 6 /\ Rankings(c)[j].tier = NoneVal

\* the fields a cohort sorts by, the composite first
TieFields ==
  IF cohort = "latest"
  THEN << "composite_score", "business_proposal_viability", "market_demand_competitiveness",
          "financial_position", "inclusivity_sustainability", "registration_track_record" >>
  ELSE << "composite_score", "business_proposal_viability", "financial_position" >>

FieldsOf(r) == [ n \in DOMAIN TieFields |-> r.scores[TieFields[n]] ]

\* a is above b or level with it, field by field in the configured order
NotBelow(a, b) ==
  \/ a = b
  \/ \E n \in DOMAIN a : a[n] > b[n] /\ \A m \in 1..(n - 1) : a[m] = b[m]

\* C5: a county ranking is in non-increasing composite order, and entries
\* tied on the composite are ordered by the cohort's tie-break fields in their
\* configured order, each descending.
C5_SortedByCompositeThenTieBreak ==
  \A c \in RankedCounties : \A i, j \in DOMAIN Rankings(c) :
     i < j =>
       /\ Rankings(c)[i].composite_score >= Rankings(c)[j].composite_score
       /\ NotBelow(FieldsOf(Rankings(c)[i]), FieldsOf(Rankings(c)[j]))

\* C5 witness: two entries tied on the composite whose business-proposal
\* scores are 5 and 4; the one with 5 was loaded later and is ranked above
C5_Witness ==
  /\ cohort = "latest" /\ status = "done"
  /\ \E c \in RankedCounties : \E i, j \in DOMAIN Rankings(c) :
       /\ i < j
       /\ Rankings(c)[i].composite_score = Rankings(c)[j].composite_score
       /\ Rankings(c)[i].scores["business_proposal_viability"] = Num(5)
       /\ Rankings(c)[j].scores["business_proposal_viability"] = Num(4)
       /\ \E m, n \in DOMAIN files[c].applications :
            /\ m < n
            /\ files[c].applications[m].application_id = Rankings(c)[j].application_id
            /\ files[c].applications[n].application_id = Rankings(c)[i].application_id

\* the application ids that occur, in the order of Python's string comparison
IdOrder ==
  << "Baringo_A1", "Baringo_A2", "Baringo_A3", "Baringo_A4",
     "Baringo_B1", "Baringo_B2", "Baringo_B3", "Baringo_B4",
     "Baringo_B5", "Baringo_B6", "Baringo_B7", "Baringo_B8",
     "C1_X1", "C1_X2", "C1_X3", "C1_X4", "C1_X5", "C1_X6",
     "Nakuru_A1", "Nakuru_A2" >>

IdBefore(a, b) ==
  \E m, n \in DOMAIN IdOrder : m < n /\ IdOrder[m] = JoinId(a) /\ IdOrder[n] = JoinId(b)

\* C6: entries of a county equal on the composite and on every tie-break
\* field are ordered by application id, whatever the order of loading.
C6_FullTiesOrderedById ==
  \A c \in RankedCounties : \A i, j \in DOMAIN Rankings(c) :
     (i < j /\ FieldsOf(Rankings(c)[i]) = FieldsOf(Rankings(c)[j]))
       => IdBefore(Rankings(c)[i].application_id, Rankings(c)[j].application_id)

\* C7: two runs on identical application data, alternates file and cohort
\* produce identical ranked lists for every county: same order, ranks, tiers.
C7_RunsAgree ==
  \A i, j \in DOMAIN reports :
     /\ DOMAIN reports[i].county_summary = DOMAIN reports[j].county_summary
     /\ \A c \in DOMAIN reports[i].county_summary :
          reports[i].county_summary[c].rankings = reports[j].county_summary[c].rankings

\* C7 witness: a second run by a new analyzer that read the county files in
\* another order, each county ranked with entries and an alternate among them
C7_Witness ==
  /\ Len(reports) = 2
  /\ Len(reports[2].detailed_results) = Len(reports[1].detailed_results)
  /\ reports[1].detailed_results # reports[2].detailed_results
  /\ \A c \in DOMAIN reports[2].county_summary :
       Len(reports[2].county_summary[c].rankings) > 0
  /\ \E c \in DOMAIN reports[2].county_summary :
       Len(AlternatesOf(reports[2].county_summary[c].rankings)) > 0

\* the case of C8: one alternate of composite 72 in a county whose sixth
\* current-round entry has composite 68, under top_n = 6
ScenarioB(R) ==
  /\ cohort = "latest"
  /\ Len(AlternatesOf(R)) = 1
  /\ AlternatesOf(R)[1].composite_score = Num(72)
  /\ Len(CurrentOf(R)) >= 6
  /\ CurrentOf(R)[6].composite_score = Num(68)

\* C8: with top_n = 6, a single alternate of composite 72 blended into a
\* county whose current rank-6 applicant has composite 68 ranks within 6, and
\* that applicant stays in the list at rank 7 with tier None.
C8_AlternateDisplacesRankSix ==
  \A c \in RankedCounties :
     ScenarioB(Rankings(c)) =>
       /\ AlternatesOf(Rankings(c))[1].rank <= 6
       /\ CurrentOf(Rankings(c))[6].rank = 7
       /\ CurrentOf(Rankings(c))[6].tier = NoneVal

\* C8 witness: the scenario occurs in Baringo
C8_Witness ==
  /\ status = "done"
  /\ "Baringo" \in RankedCounties
  /\ ScenarioB(Rankings("Baringo"))

\* the prior-round field holding each criterion
PriorField ==
  [ registration_track_record |-> "A3.1",
    financial_position |-> "A3.2",
    market_demand_competitiveness |-> "A3.3",
    business_proposal_viability |-> "A3.4",
    value_chain_alignment |-> "A3.5",
    inclusivity_sustainability |-> "A3.6" ]

LoadedAlternates ==
  UNION { Range(c1_alternates[c]) : c \in DOMAIN c1_alternates }

\* C9: every alternate load_cohort1_alternates returns comes from a prior
\* record of rank 3 or 4, is tagged is_c1_alternate, and has each of its six
\* scores equal to the prior value divided by 20; a record of any other rank
\* never becomes an alternate.
C9_AlternatesFromRankBand ==
  /\ \A a \in LoadedAlternates :
       \E n \in DOMAIN c1_file.records :
          /\ c1_file.records[n]["Ranking from composite score"] \in {3, 4}
          /\ a.application_id = <<"C1">> \o c1_file.records[n]["Application ID"]
          /\ a.is_c1_alternate = TRUE
          /\ \A k \in Criteria : a.scores[k] * 20 = c1_file.records[n][PriorField[k]]
  /\ \A n \in DOMAIN c1_file.records :
       c1_file.records[n]["Ranking from composite score"] \notin {3, 4}
         => \A a \in LoadedAlternates :
              a.application_id # <<"C1">> \o c1_file.records[n]["Application ID"]

\* C9 witness: a file with a rank-3 record and a rank-2 record was loaded
C9_Witness ==
  /\ LoadedAlternates # {}
  /\ \E n \in DOMAIN c1_file.records :
       c1_file.records[n]["Ranking from composite score"] = 2
  /\ \E a \in LoadedAlternates : a.scores["financial_position"] = 350

EligibleNow(app) ==
  analyze_eligibility(StrategyOf(cohort), app, ExtractContent(app)).eligible

Occurrences(R, id, alt) ==
  Cardinality({ j \in DOMAIN R : R[j].application_id = id /\ R[j].is_c1_alternate = alt })

\* C10: a county's ranked list holds each eligible current-round application
\* exactly once, each alternate blended into the county exactly once, and
\* nothing else; no ineligible application appears in it.
C10_RankedListIsThePool ==
  \A c \in RankedCounties :
     LET apps == counties_data.data[c].applications
         alts == Get(c1_alternates, c, <<>>)
     IN /\ \A n \in DOMAIN apps :
             Occurrences(Rankings(c), apps[n].application_id, FALSE)
               = (IF EligibleNow(apps[n]) THEN 1 ELSE 0)
        /\ \A n \in DOMAIN alts :
             Occurrences(Rankings(c), alts[n].application_id, TRUE) = 1
        /\ Len(Rankings(c))
             = Cardinality({ n \in DOMAIN apps : EligibleNow(apps[n]) }) + Len(alts)

\* C10 witness: a county with an ineligible application, and an alternate
\* ranked above an eligible current-round application
C10_Witness ==
  /\ status = "done"
  /\ \E c \in RankedCounties :
       /\ \E n \in DOMAIN counties_data.data[c].applications :
            ~EligibleNow(counties_data.data[c].applications[n])
       /\ \E i, j \in DOMAIN Rankings(c) :
            i < j /\ Rankings(c)[i].is_c1_alternate /\ ~Rankings(c)[j].is_c1_alternate

\* C11: a Cohort 2 entry with rank <= top_n is "Tier 1: Ready-to-Scale"
\* exactly when its financial_position and market_demand_competitiveness
\* scores are both >= 4 (a missing score counting as 0) and "Tier 2:
\* Emerging" otherwise; under Cohort 1 every top-N entry is "Tier 2: Emerging".
C11_TierRule ==
  \A c \in RankedCounties : \A j \in DOMAIN Rankings(c) :
     Rankings(c)[j].rank <= (IF cohort = "latest" THEN 6 ELSE 2) =>
        Rankings(c)[j].tier =
          (IF /\ cohort = "latest"
              /\ Get(Rankings(c)[j].scores, "financial_position", 0) >= Num(4)
              /\ Get(Rankings(c)[j].scores, "market_demand_competitiveness", 0) >= Num(4)
           THEN "Tier 1: Ready-to-Scale"
           ELSE "Tier 2: Emerging")

\* C11 witness: among the top six of a Cohort 2 county, a Tier 1 entry, and a
\* Tier 2 entry whose financial score is 4 but whose market score is 3
C11_Witness ==
  /\ cohort = "latest"
  /\ \E c \in RankedCounties :
       /\ \E j \in DOMAIN Rankings(c) :
            Rankings(c)[j].rank <= 6 /\ Rankings(c)[j].tier = "Tier 1: Ready-to-Scale"
       /\ \E j \in DOMAIN Rankings(c) :
            /\ Rankings(c)[j].rank <= 6
            /\ Rankings(c)[j].tier = "Tier 2: Emerging"
            /\ Rankings(c)[j].scores["financial_position"] = Num(4)
            /\ Rankings(c)[j].scores["market_demand_competitiveness"] = Num(3)

\* the weight tables that compute a composite, in hundredths
WeightTables ==
  { Cohort1_get_scoring_weights, Cohort2_get_scoring_weights,
    Agentic_weights("c1"), Agentic_weights("latest") }

SixKeys == { Criteria, {"reg", "fin", "mkt", "prop", "vc", "inc"} }

\* C12: every weight table used to compute a composite (the two cohort
\* strategies and both cohort branches of evaluate_county) covers exactly the
\* six criteria and its weights sum to 1.0.
C12_WeightsSumToOne ==
  /\ \A w \in WeightTables :
       /\ DOMAIN w \in SixKeys
       /\ SetSum(w, DOMAIN w) = 100
  /\ get_scoring_weights(StrategyOf(cohort)) \in WeightTables
  /\ Agentic_weights(cohort) \in WeightTables

\* C12 witness: an application scored 50.00 under cohort "c1" with all six
\* weights applied (a full score of 5 on every criterion would give 100.00)
C12_Witness ==
  /\ cohort = "c1"
  /\ OutScored
  /\ OutComposite = Num(50)
  /\ Agentic_c_score(<<Num(5), Num(5), Num(5), Num(5), Num(5), Num(5)>>,
                     Agentic_weights(cohort)) = 100 * Num(100)

\* a weight table that covers the six criteria and sums to 1.0
ValidWeights(w) == DOMAIN w = Criteria /\ SetSum(w, DOMAIN w) = 100

AppFails(app) == AppRaises(StrategyOf(cohort), app, ExtractContent(app))

LoadedApps(c) == counties_data.data[c].applications

\* C14: when the evaluation of one application of a county raises, every
\* other application of that county is still evaluated and reported: after
\* run_analysis each eligible application of the county that raises nothing
\* itself is in the county's ranked list.
C14_OtherApplicationsStillRanked ==
  status \in {"done", "raised"} =>
    \A c \in DOMAIN counties_data.data :
       (\E n \in DOMAIN LoadedApps(c) : AppFails(LoadedApps(c)[n])) =>
          \A m \in DOMAIN LoadedApps(c) :
             (~AppFails(LoadedApps(c)[m]) /\ EligibleNow(LoadedApps(c)[m])) =>
                /\ c \in RankedCounties
                /\ Occurrences(Rankings(c), LoadedApps(c)[m].application_id, FALSE) = 1

\* C15: when the prior-round file holds a malformed record,
\* load_cohort1_alternates skips that record only: every valid rank-3 or
\* rank-4 record of the file, before or after the malformed one, is returned
\* as an alternate and blended into its county's ranked list.
C15_OnlyMalformedRecordSkipped ==
  (status \in {"done", "raised"} /\ cohort = "latest" /\ c1_file.exists) =>
    \A n \in DOMAIN c1_file.records :
       LET rec == c1_file.records[n]
           id == <<"C1">> \o rec["Application ID"]
           county == Title(rec["E2. County Mapping"])
       IN (rec["Ranking from composite score"] \in {3, 4} /\ ~AlternateRaises(rec)) =>
            /\ \E a \in LoadedAlternates : a.application_id = id
            /\ (status = "done" /\ county \in RankedCounties)
                 => Occurrences(Rankings(county), id, TRUE) = 1

\* a tie-break score of a pool entry is absent or null
ScoreMissing(x, tie_breaker) ==
  \E i \in DOMAIN tie_breaker :
     \/ tie_breaker[i] \notin DOMAIN Get(x, "scores", EmptyDict) \cup DOMAIN x
     \/ SortKeyRaises(x, <<tie_breaker[i]>>)

\* C16: a pool entry with a missing or malformed score is left out of the
\* county's ranked list and the ranking of the other entries completes
\* without raising: a run in which no application evaluation fails ends
\* normally, and no ranked entry has a missing score.
C16_MalformedScoreLeftOut ==
  (/\ status \in {"done", "raised"}
   /\ \A c \in DOMAIN counties_data.data :
         \A n \in DOMAIN LoadedApps(c) : ~AppFails(LoadedApps(c)[n])) =>
    /\ status = "done"
    /\ \A c \in RankedCounties : \A j \in DOMAIN Rankings(c) :
          ~ScoreMissing(Rankings(c)[j], get_tie_breaker_order(StrategyOf(cohort)))

\* the gates of an evaluation that returned
OutCriteria ==
  IF eval_out.by = "Strategy" THEN eval_out.criteria
  ELSE eval_out.evaluation.eligibility.criteria_results

\* the evaluated application has no content, no financial documents and no
\* structured field with a value
EmptyApplication ==
  /\ eval_in # NoEval
  /\ Get(eval_in.application, "application_info", {}) = {}
  /\ Get(eval_in.application, "financial_documents", {}) = {}
  /\ \A k \in EmptyCsvFields :
        Falsy(Get(Get(eval_in.application, "csv_metadata", EmptyDict), k, ""))
  /\ eval_out # NoEval
  /\ eval_out.by = "Strategy" => eval_out.content = EmptyText

\* C17: for an application with empty content, no financial documents and
\* structured fields that are absent, empty or null, check_eligibility of
\* either strategy returns without raising and every gate the cohort does
\* not relax evaluates to false (Cohort 2: E1, E3, E4; Cohort 1: all five).
C17_EmptyApplicationFailsClosed ==
  EmptyApplication =>
    /\ "raised" \notin DOMAIN eval_out
    /\ \A g \in IF cohort = "latest"
                 THEN {"E1_registration_legality", "E3_priority_value_chain",
                       "E4_financial_evidence"}
                 ELSE Gates : ~OutCriteria[g]

\* the same for fields that are absent or empty but never null
C17_AbsentOrEmptyFailsClosed ==
  (/\ EmptyApplication
   /\ \A k \in EmptyCsvFields :
         Get(Get(eval_in.application, "csv_metadata", EmptyDict), k, "") # NoneVal) =>
    /\ "raised" \notin DOMAIN eval_out
    /\ \A g \in IF cohort = "latest"
                 THEN {"E1_registration_legality", "E3_priority_value_chain",
                       "E4_financial_evidence"}
                 ELSE Gates : ~OutCriteria[g]

\* Scenario C: no structured registration status or number, and the content
\* holds "Certificate of Registration No. BN-1234"
ScenarioC(app) ==
  /\ S_cert \in Get(app, "application_info", {})
  /\ Falsy(Get(Get(app, "csv_metadata", EmptyDict), "registration_status", ""))
  /\ Falsy(Get(Get(app, "csv_metadata", EmptyDict), "registration_number", ""))

\* C18: a Scenario C application passes E1 under the cohort policy in use,
\* both in the application loop of run_analysis and in
\* KJETCountyEvaluator.evaluate_single_application.
C18_CertificateNumberPassesE1 ==
  (/\ eval_out # NoEval
   /\ eval_out.by \in {"KJETAnalyzer", "KJETCountyEvaluator"}
   /\ ScenarioC(eval_in.application)) =>
    OutEligibility.criteria_results["E1_registration_legality"]

\* Scenario D: no financial documents, no structured turnover and no
\* financial keyword in the content
ScenarioD(app) ==
  /\ Get(app, "financial_documents", {}) = {}
  /\ Falsy(Get(Get(app, "csv_metadata", EmptyDict), "turnover_2024", ""))
  /\ Falsy(Get(Get(app, "csv_metadata", EmptyDict), "turnover_2023", ""))
  /\ ~AnyKw({"bank statement", "mpesa", "financial statement", "cashflow", "balance sheet"},
            ExtractContent(app))

\* C19: a Scenario D application fails E4 under either cohort strategy, is
\* not eligible and is never scored: it has no scoring block in the county
\* evaluation and adds no entry to the county's results.
C19_NoFinancialEvidenceNotScored ==
  (/\ eval_out # NoEval
   /\ eval_out.by \in {"KJETAnalyzer", "KJETCountyEvaluator"}
   /\ ScenarioD(eval_in.application)) =>
    /\ ~OutEligibility.criteria_results["E4_financial_evidence"]
    /\ ~OutEligibility.eligible
    /\ ~OutScored

\* C19 witness: a Scenario D application whose only failing gate is E4, in
\* the analyzer and in the county evaluator
C19_Witness ==
  /\ eval_out # NoEval
  /\ eval_out.by = "KJETCountyEvaluator"
  /\ ScenarioD(eval_in.application)
  /\ { g \in Gates : ~OutEligibility.criteria_results[g] } = {"E4_financial_evidence"}
  /\ "scoring" \notin DOMAIN eval_out.evaluation

\* C20: every per-criterion score of a ranked entry, whether returned by
\* calculate_scores or rescaled from a prior-round record for an alternate,
\* is between 0 and 5 inclusive.
C20_ScoresWithinRange ==
  \A c \in RankedCounties : \A j \in DOMAIN Rankings(c) :
     \A k \in Criteria \cap DOMAIN Rankings(c)[j].scores :
        /\ Rankings(c)[j].scores[k] >= 0
        /\ Rankings(c)[j].scores[k] <= Num(5)

\* the structured turnover figure calculate_scores reads, Null when there is
\* none or it is not a number
TurnoverOf(app) ==
  LET csv_meta == Get(app, "csv_metadata", EmptyDict)
      t24 == Get(csv_meta, "turnover_2024", NoneVal)
      turnover == IF ~Falsy(t24) THEN t24 ELSE Get(csv_meta, "turnover_2023", NoneVal)
  IN IF Falsy(turnover) THEN Null ELSE ParseFloat(turnover)

\* C21: with a structured turnover figure, Cohort2Strategy.calculate_scores
\* gives financial_position 5 for a turnover >= 10,000,000, 4 for
\* >= 5,000,000, 3 for >= 1,000,000 and less than 3 below 1,000,000.
C21_TurnoverBands ==
  (/\ OutScored
   /\ cohort = "latest"
   /\ TurnoverOf(eval_in.application) # Null) =>
    LET t == TurnoverOf(eval_in.application)
        financial == OutRaw["financial_position"]
    IN /\ t >= Num(10000000) => financial = Num(5)
       /\ (t >= Num(5000000) /\ t < Num(10000000)) => financial = Num(4)
       /\ (t >= Num(1000000) /\ t < Num(5000000)) => financial = Num(3)
       /\ t < Num(1000000) => financial < Num(3)

\* C22: a second run_analysis on the same analyzer, over unchanged files,
\* leaves the results of the first run as they were: the county rankings,
\* detailed_results and the totals are equal, nothing is duplicated.
C22_RerunIsIdempotent ==
  [][(status = "done" /\ status' = "done" /\ runs' = runs + 1)
       => analysis_results' = analysis_results]_vars


\* C26: in the content-based evaluator an application without financial
\* documents passes E4 only when its content has a financial keyword, a
\* currency indicator, a financial term or a currency amount; content whose
\* only numbers are a plot number, a year or a phone number does not pass.
C26_OnlyFinancialContentPassesE4 ==
  (/\ eval_out # NoEval
   /\ eval_out.by = "county_evaluator.KJETCountyEvaluator"
   /\ Get(eval_in.application, "financial_documents", {}) = {}
   /\ OutCriteria["E4_financial_evidence"]) =>
     LET content == Legacy_extract_application_content(eval_in.application)
     IN \/ AnyKw(Legacy_financial_keywords, content)
        \/ ReSearch("re_currency", content)
        \/ ReSearch("re_fin_terms", content)
        \/ \E s \in content.snips : CurrencyAmounts[s] # {}


\* ------------------------- county files under the names found on disk
\* the county part of <county>_kjet_applications_complete.json is the key of
\* counties_data as it is written; "West pokot" is one of the spellings
\* canonicalize_county_name knows
NamedCounties == {"Baringo", "West pokot"}

NamedPrior ==
  << PriorRecord("X1", 3, "Baringo", 72, <<80, 70, 60, 80, 100, 60>>),
     PriorRecord("X10", 3, "West pokot", 62, <<60, 60, 60, 60, 80, 60>>),
     PriorRecord("X11", 4, "West Pokot", 60, <<60, 60, 60, 60, 60, 60>>) >>

InitNamed ==
  /\ cohort \in Cohorts
  /\ files \in { [c \in NamedCounties |->
                    [applications |-> IF c = "Baringo" THEN q ELSE r, csv |-> CsvOf(c)]] :
                  q \in FilesOf("Baringo"), r \in FilesOf("West pokot") }
  /\ c1_file \in { [exists |-> FALSE, records |-> <<>>] }
                 \cup { [exists |-> TRUE, records |-> r] :
                          r \in IF cohort = "latest" THEN SubSeqs(NamedPrior, MaxPrior) ELSE {<<>>} }
  /\ counties_data = NewCountiesData
  /\ analysis_results = NewAnalysisResults(cohort)
  /\ c1_alternates = EmptyDict
  /\ reports = <<>>
  /\ runs = 0
  /\ status = "ready"
  /\ eval_in = NoEval
  /\ eval_out = NoEval
  /\ AccountsIdle
  /\ EvaluatorIdle

SpecNamed == InitNamed /\ [][Next]_vars

\* the counties in whose ranking the alternate a appears
RankedIn(a) ==
  { c \in RankedCounties :
      \E j \in DOMAIN Rankings(c) :
         /\ Rankings(c)[j].is_c1_alternate
         /\ Rankings(c)[j].application_id = a.application_id }

\* C29: after a run every alternate load_cohort1_alternates returned is in
\* the ranking of exactly one county, the county of its prior record, however
\* that county's name is spelled or cased.
C29_EveryAlternateRanked ==
  status = "done" =>
    \A a \in LoadedAlternates :
       /\ Cardinality(RankedIn(a)) = 1
       /\ \A c \in RankedIn(a) : Title(c) = a.county


\* C30: the composite_score by which an alternate is ranked equals the
\* weighted composite of its own rescaled scores under the current cohort's
\* weights, the formula score_application applies to current-round entries.
C30_AlternateCompositeIsWeighted ==
  \A c \in RankedCounties :
     \A j \in DOMAIN Rankings(c) :
        Rankings(c)[j].is_c1_alternate =>
          Rankings(c)[j].composite_score
            = Round2(WeightedTotal(Rankings(c)[j].scores,
                                   get_scoring_weights(StrategyOf(cohort))))


\* ------------------------------------------------ accounts/views.py
\* the analyzer and the single-application evaluators stay as constructed
AnalyzerIdle ==
  /\ cohort = "latest"
  /\ files = [c \in Counties |-> [applications |-> <<>>, csv |-> <<>>]]
  /\ c1_file = [exists |-> FALSE, records |-> <<>>]
  /\ counties_data = NewCountiesData
  /\ analysis_results = NewAnalysisResults(cohort)
  /\ c1_alternates = EmptyDict
  /\ reports = <<>>
  /\ runs = 0
  /\ status = "ready"
  /\ eval_in = NoEval
  /\ eval_out = NoEval

analyzer_vars ==
  << cohort, files, c1_file, counties_data, analysis_results, c1_alternates,
     reports, runs, status, eval_in, eval_out >>

Usernames == {"testuser", "nouser"}

Passwords == {"testpass123", "nopass"}

\* a first name of 151 characters; auth_user.first_name is a varchar(150)
LongName == "NNNNNNNNNNNNNNNNNNNNNNNNNNNNNNNNNNNNNNNNNNNNNNNNNNNNNNNNNNNNNNNNNNNNNNNNNNNNNNNNNNNNNNNNNNNNNNNNNNNNNNNNNNNNNNNNNNNNNNNNNNNNNNNNNNNNNNNNNNNNNNNNNNNNNNN"

FirstNames == {"Test", LongName}

\* request.POST of a signup: empty data, or the three fields of
\* UserCreationForm with or without first_name
SignupData ==
  {EmptyDict}
  \cup { [username |-> u, password1 |-> p, password2 |-> q] :
           u \in Usernames \cup {""}, p \in Passwords \cup {""}, q \in Passwords \cup {""} }
  \cup { [username |-> u, password1 |-> p, password2 |-> q, first_name |-> f] :
           u \in Usernames, p \in Passwords, q \in Passwords, f \in FirstNames }

\* request.POST of a login
LoginData ==
  {EmptyDict}
  \cup { [username |-> u, password |-> p] :
           u \in Usernames \cup {""}, p \in Passwords \cup {""} }

\* form.errors of UserCreationForm(request.POST): the fields are required, the
\* username is unique, password2 repeats password1
UserCreationForm_errors(POST, table) ==
  (IF Get(POST, "username", "") = "" \/ Get(POST, "username", "") \in DOMAIN table
   THEN {"username"} ELSE {})
  \cup (IF Get(POST, "password1", "") = "" THEN {"password1"} ELSE {})
  \cup (IF \/ Get(POST, "password2", "") = ""
           \/ (Get(POST, "password1", "") # "" /\
               Get(POST, "password1", "") # Get(POST, "password2", ""))
        THEN {"password2"} ELSE {})

UserCreationForm_is_valid(POST, table) == UserCreationForm_errors(POST, table) = {}

\* form.save(commit=False) and the three assignments of signup_view
NewUser(POST) ==
  [ password |-> POST["password1"],
    email |-> Get(POST, "email", ""),
    first_name |-> Get(POST, "first_name", ""),
    last_name |-> Get(POST, "last_name", "") ]

User_save_never_raises(user) == FALSE

\* user.save() on the postgis backend of settings/production.py: a value too
\* long for its column raises DataError
User_save_raises(user) ==
  \/ Len(user.first_name) > 150
  \/ Len(user.last_name) > 150
  \/ Len(user.email) > 254

authenticate_any_password(table, username, password) ==
  IF username \in DOMAIN table THEN username ELSE Anonymous

\* authenticate(request, username=..., password=...): the user, or None
authenticate(table, username, password) ==
  IF username \in DOMAIN table /\ table[username].password = password
  THEN username ELSE Anonymous

\* form.errors of AuthenticationForm(data=request.POST): clean() authenticates
AuthenticationForm_errors(POST, table) ==
  (IF Get(POST, "username", "") = "" THEN {"username"} ELSE {})
  \cup (IF Get(POST, "password", "") = "" THEN {"password"} ELSE {})
  \cup (IF /\ Get(POST, "username", "") # ""
           /\ Get(POST, "password", "") # ""
           /\ authenticate(table, POST["username"], POST["password"]) = Anonymous
        THEN {"__all__"} ELSE {})

redirect(to) == [status |-> 302, location |-> to]

render(template_name, form_errors) ==
  [status |-> 200, template |-> template_name, form_errors |-> form_errors]

signup_view ==
  \E method \in {"GET", "POST"} :
  \E POST \in IF method = "POST" THEN SignupData ELSE {EmptyDict} :
    /\ request' = [view |-> "signup_view", method |-> method, POST |-> POST]
    /\ IF method = "POST" /\ UserCreationForm_is_valid(POST, users)
       THEN IF ~User_save_raises(NewUser(POST))
            THEN /\ users' = [ u \in DOMAIN users \cup {POST["username"]} |->
                               IF u = POST["username"] THEN NewUser(POST) ELSE users[u] ]
                 /\ session' = POST["username"]
                 /\ response' = redirect("/")
            ELSE /\ response' = render("accounts/signup.html", {"__all__"})
                 /\ UNCHANGED << users, session >>
       ELSE /\ response' =
                 render("accounts/signup.html",
                        IF method = "POST" THEN UserCreationForm_errors(POST, users) ELSE {})
            /\ UNCHANGED << users, session >>
    /\ UNCHANGED << analyzer_vars, evaluator_vars >>

login_view ==
  \E method \in {"GET", "POST"} :
  \E POST \in IF method = "POST" THEN LoginData ELSE {EmptyDict} :
    /\ request' = [view |-> "login_view", method |-> method, POST |-> POST]
    /\ IF method = "POST" /\ AuthenticationForm_errors(POST, users) = {}
       THEN IF authenticate(users, POST["username"], POST["password"]) # Anonymous
            THEN /\ session' = authenticate(users, POST["username"], POST["password"])
                 /\ response' = redirect("/")
            ELSE /\ response' = render("accounts/login.html", {"__all__"})
                 /\ UNCHANGED session
       ELSE /\ response' =
                 render("accounts/login.html",
                        IF method = "POST" THEN AuthenticationForm_errors(POST, users) ELSE {})
            /\ UNCHANGED session
    /\ UNCHANGED << users, analyzer_vars, evaluator_vars >>

logout_view ==
  \E method \in {"GET", "POST"} :
    /\ request' = [view |-> "logout_view", method |-> method, POST |-> EmptyDict]
    /\ session' = Anonymous
    /\ response' = redirect("/")
    /\ UNCHANGED << users, analyzer_vars, evaluator_vars >>

InitAccounts ==
  /\ AnalyzerIdle
  /\ AccountsIdle
  /\ EvaluatorIdle

NextAccounts == signup_view \/ login_view \/ logout_view

SpecAccounts == InitAccounts /\ [][NextAccounts]_vars


\* the submitted signup data pass UserCreationForm: a username that is not
\* taken and a password given twice
ValidSignupData(POST, table) ==
  /\ Get(POST, "username", "") # ""
  /\ Get(POST, "username", "") \notin DOMAIN table
  /\ Get(POST, "password1", "") # ""
  /\ Get(POST, "password2", "") = Get(POST, "password1", "")

\* the extra fields signup_view copies from request.POST fit their columns
Storable(POST) ==
  /\ Len(Get(POST, "first_name", "")) <= 150
  /\ Len(Get(POST, "last_name", "")) <= 150
  /\ Len(Get(POST, "email", "")) <= 254

ServedBy(view) == "view" \in DOMAIN request' /\ request'.view = view

CredentialsOfUser(POST, table) ==
  /\ Get(POST, "username", "") \in DOMAIN table
  /\ Get(POST, "password", "") # ""
  /\ table[POST["username"]].password = POST["password"]

IdNone == <<NoneVal>>

Digits == <<"1", "2", "3", "4", "5", "6", "7", "8", "9">>

\* str(n) of the small numbers that occur in keys
NumStr(n) == Digits[n]

Evaluators == {"scripts/evaluation/county_evaluator.py", "county_evaluator.py"}

\* raw_id is None or (isinstance(raw_id, str) and raw_id.strip() == "")
NoneOrBlank(raw_id) == raw_id = IdNone \/ raw_id = <<>>

\* app_id before the collision check: str(raw_id) or the fallback
\* f"unknown_{len(application_evaluations) + 1}"
FallbackId(raw_id, evaluations) ==
  IF NoneOrBlank(raw_id)
  THEN <<"unknown", NumStr(Cardinality(DOMAIN evaluations) + 1)>>
  ELSE raw_id

\* the collision check: f"{base}_{suffix}" with the first free suffix
UniqueId(app_id, evaluations) ==
  IF app_id \in DOMAIN evaluations
  THEN LET suffix == CHOOSE n \in DOMAIN Digits :
                       /\ (app_id \o <<NumStr(n)>>) \notin DOMAIN evaluations
                       /\ \A m \in 1..(n - 1) : (app_id \o <<NumStr(m)>>) \in DOMAIN evaluations
       IN app_id \o <<NumStr(suffix)>>
  ELSE app_id

\* the key chosen on the success path: the application's id, else the id
\* produced by the evaluation
SuccessId(application, app_evaluation, evaluations) ==
  LET own == Get(application, "application_id", IdNone)
      raw_id == IF NoneOrBlank(own) THEN app_evaluation.application_id ELSE own
  IN UniqueId(FallbackId(raw_id, evaluations), evaluations)

\* the key chosen by the two exception handlers
FailureId(application, evaluations) ==
  UniqueId(FallbackId(Get(application, "application_id", IdNone), evaluations), evaluations)

\* d[k] = v
Store(d, k, v) == [ x \in DOMAIN d \cup {k} |-> IF x = k THEN v ELSE d[x] ]

\* evaluation_results as built before the loop
NewEvaluationResults(county_name, apps) ==
  [ evaluation_metadata |-> [county |-> county_name, total_applications |-> Len(apps)],
    eligibility_summary |->
      [ total_applications |-> Len(apps),
        eligible_applications |-> 0,
        ineligible_applications |-> 0 ],
    scoring_summary |-> [total_scored |-> 0],
    application_evaluations |-> EmptyDict ]

\* the try body after evaluate_with_timeout returned app_evaluation
RecordEvaluation(results, application, app_evaluation) ==
  LET app_id == SuccessId(application, app_evaluation, results.application_evaluations)
      eligible == app_evaluation.eligibility.eligible
  IN [ results EXCEPT
         !.application_evaluations =
            Store(@, app_id, [app_evaluation EXCEPT !.application_id = app_id]),
         !.eligibility_summary.eligible_applications = IF eligible THEN @ + 1 ELSE @,
         !.eligibility_summary.ineligible_applications = IF eligible THEN @ ELSE @ + 1,
         !.scoring_summary.total_scored =
            IF eligible /\ "scoring" \in DOMAIN app_evaluation THEN @ + 1 ELSE @ ]

FailedEntry(app_id, error, reason) ==
  [ application_id |-> app_id,
    error |-> error,
    eligibility |-> [eligible |-> FALSE, failure_reasons |-> <<reason>>] ]

RecordFailure_uncounted(results, application, error, reason) ==
  [ results EXCEPT
      !.application_evaluations =
         Store(@, FailureId(application, @),
               FailedEntry(FailureId(application, @), error, reason)) ]

\* the handlers of TimeoutError and of Exception
RecordFailure(results, application, error, reason) ==
  [ results EXCEPT
      !.application_evaluations =
         Store(@, FailureId(application, @),
               FailedEntry(FailureId(application, @), error, reason)),
      !.eligibility_summary.ineligible_applications = @ + 1 ]

TimedOut == "Evaluation timed out after 60 seconds"

\* csv_metadata of evaluate_county_applications (scripts/evaluation, latest cohort)
CountyCsvMetadata(evaluator, c, rows) ==
  IF evaluator = "scripts/evaluation/county_evaluator.py" /\ c = "latest"
  THEN CsvData(rows) ELSE EmptyDict

\* application["csv_metadata"] = csv_metadata[app_id_short]
InjectCsv(application, csv_metadata) ==
  LET app_id_short == ShortId(Get(application, "application_id", <<>>))
  IN IF app_id_short \in DOMAIN csv_metadata
     THEN [ k \in DOMAIN application \cup {"csv_metadata"} |->
            IF k = "csv_metadata" THEN csv_metadata[app_id_short] ELSE application[k] ]
     ELSE application

\* func(*args) of evaluate_with_timeout: the evaluation, or the exception that
\* leaves evaluate_single_application
CallResult(evaluator, c, application, county_name) ==
  IF evaluator = "county_evaluator.py"
  THEN [ kind |-> "value",
         value |-> Legacy_evaluate_single_application(application, county_name,
                     Legacy_extract_application_content(application)) ]
  ELSE IF AppRaises(StrategyOf(c), application, extract_application_content(application))
  THEN [kind |-> "Exception"]
  ELSE [ kind |-> "value",
         value |-> evaluate_single_application(StrategyOf(c),
                     get_scoring_weights(StrategyOf(c)), application,
                     extract_application_content(application)) ]

\* the applications handed to evaluate_county_applications: an eligible one,
\* one without content, one whose csv row is short, and the first with its id
\* absent, empty and null
WithId(application, id) == [application EXCEPT !.application_id = id]

WithoutId(application) ==
  [ k \in DOMAIN application \ {"application_id"} |-> application[k] ]

CountyPool ==
  { FaultyPool[1],
    AppPool("Baringo")[4],
    FaultyPool[2],
    WithoutId(FaultyPool[1]),
    WithId(FaultyPool[1], <<>>),
    WithId(FaultyPool[1], IdNone) }

CountyInputs ==
  UNION { [1..n -> CountyPool] : n \in 0..MaxApps }

InitCounty ==
  /\ cohort \in Cohorts
  /\ files = [c \in Counties |->
                [applications |-> <<>>,
                 csv |-> IF c = "Baringo" THEN FaultyCsv ELSE <<>>]]
  /\ c1_file = [exists |-> FALSE, records |-> <<>>]
  /\ counties_data = NewCountiesData
  /\ analysis_results = NewAnalysisResults(cohort)
  /\ c1_alternates = EmptyDict
  /\ reports = <<>>
  /\ runs = 0
  /\ status = "ready"
  /\ eval_in = NoEval
  /\ eval_out = NoEval
  /\ AccountsIdle
  /\ applications \in CountyInputs
  /\ evaluation_results = NotCalled
  /\ frame = NotCalled
  /\ sigalrm = [handler |-> "SIG_DFL", alarm |-> FALSE]

CountyUnchanged == UNCHANGED << analyzer_vars, accounts_vars >>

\* the call, up to the head of the loop
EvaluateCountyApplications ==
  /\ frame = NotCalled
  /\ \E evaluator \in Evaluators :
       frame' = [ pc |-> "for", evaluator |-> evaluator, county_name |-> "Baringo",
                  i |-> 1, app_id |-> <<>>, old_handler |-> "SIG_DFL",
                  returned |-> FALSE, result |-> [kind |-> "none"] ]
  /\ evaluation_results' = NewEvaluationResults("Baringo", applications)
  /\ UNCHANGED << applications, sigalrm >>
  /\ CountyUnchanged

\* the head of the loop: the statements before try, or the end of the function
ForApplication ==
  /\ frame.pc = "for"
  /\ IF frame.i > Len(applications)
     THEN /\ frame' = [frame EXCEPT !.pc = "returned"]
          /\ UNCHANGED applications
     ELSE IF /\ frame.evaluator = "scripts/evaluation/county_evaluator.py"
             /\ Get(applications[frame.i], "application_id", <<>>) = IdNone
     THEN /\ frame' = [frame EXCEPT !.pc = "TypeError"]
          /\ UNCHANGED applications
     ELSE /\ frame' = [frame EXCEPT !.pc = "try"]
          /\ applications' =
               [ applications EXCEPT ![frame.i] =
                   InjectCsv(@, CountyCsvMetadata(frame.evaluator, cohort,
                                                  files[frame.county_name].csv)) ]
  /\ UNCHANGED << evaluation_results, sigalrm >>
  /\ CountyUnchanged

\* old_handler = signal.signal(signal.SIGALRM, timeout_handler)
InstallHandler ==
  /\ frame.pc = "try"
  /\ frame' = [frame EXCEPT !.pc = "installed", !.old_handler = sigalrm.handler,
                            !.returned = FALSE, !.result = [kind |-> "none"]]
  /\ sigalrm' = [sigalrm EXCEPT !.handler = "timeout_handler"]
  /\ UNCHANGED << applications, evaluation_results >>
  /\ CountyUnchanged

\* signal.alarm(timeout_seconds)
SetAlarm ==
  /\ frame.pc = "installed"
  /\ frame' = [frame EXCEPT !.pc = "armed"]
  /\ sigalrm' = [sigalrm EXCEPT !.alarm = TRUE]
  /\ UNCHANGED << applications, evaluation_results >>
  /\ CountyUnchanged

\* result = func(*args), to its return or to the exception it raises
CallFunc ==
  /\ frame.pc = "armed"
  /\ \E result \in { CallResult(frame.evaluator, cohort, applications[frame.i],
                                frame.county_name) } :
       frame' = [frame EXCEPT !.pc = "finally", !.result = result,
                              !.returned = (result.kind = "value")]
  /\ UNCHANGED << applications, evaluation_results, sigalrm >>
  /\ CountyUnchanged

\* the alarm expires and timeout_handler raises TimeoutError where the main
\* thread is: inside func, or inside the finally clause before signal.alarm(0)
\* took effect, which ends the clause
Sigalrm ==
  /\ frame.pc \in {"armed", "finally"}
  /\ sigalrm.alarm
  /\ sigalrm' = [sigalrm EXCEPT !.alarm = FALSE]
  /\ frame' = [frame EXCEPT !.pc = IF frame.pc = "armed" THEN "finally" ELSE "leave",
                            !.result = [kind |-> "TimeoutError"]]
  /\ UNCHANGED << applications, evaluation_results >>
  /\ CountyUnchanged

\* finally: signal.alarm(0)
CancelAlarm ==
  /\ frame.pc = "finally"
  /\ frame' = [frame EXCEPT !.pc = "cancelled"]
  /\ sigalrm' = [sigalrm EXCEPT !.alarm = FALSE]
  /\ UNCHANGED << applications, evaluation_results >>
  /\ CountyUnchanged

\* finally: signal.signal(signal.SIGALRM, old_handler)
RestoreHandler ==
  /\ frame.pc = "cancelled"
  /\ frame' = [frame EXCEPT !.pc = "leave"]
  /\ sigalrm' = [sigalrm EXCEPT !.handler = frame.old_handler]
  /\ UNCHANGED << applications, evaluation_results >>
  /\ CountyUnchanged

\* the rest of the try body, or the handler of the exception
RecordApplication ==
  /\ frame.pc = "leave"
  /\ \E results \in
        { CASE frame.result.kind = "value" ->
                 RecordEvaluation(evaluation_results, applications[frame.i],
                                  frame.result.value)
            [] frame.result.kind = "TimeoutError" ->
                 RecordFailure(evaluation_results, applications[frame.i],
                               TimedOut, "Evaluation timeout")
            [] OTHER ->
                 RecordFailure(evaluation_results, applications[frame.i],
                               "Evaluation failed", "Evaluation error") } :
       /\ evaluation_results' = results
       /\ frame' = [ frame EXCEPT
                       !.pc = "for", !.i = @ + 1,
                       !.app_id =
                          CHOOSE k \in DOMAIN results.application_evaluations :
                             k \notin DOMAIN evaluation_results.application_evaluations ]
  /\ UNCHANGED << applications, sigalrm >>
  /\ CountyUnchanged

NextCounty ==
  \/ EvaluateCountyApplications
  \/ ForApplication
  \/ InstallHandler
  \/ SetAlarm
  \/ CallFunc
  \/ Sigalrm
  \/ CancelAlarm
  \/ RestoreHandler
  \/ RecordApplication

SpecCounty == InitCounty /\ [][NextCounty]_vars


Evaluations == evaluation_results.application_evaluations

\* C25: when evaluate_with_timeout is left, by return, by an exception of the
\* wrapped function or by the alarm, no alarm is pending and the handler that
\* was installed before the call is installed again; an application whose
\* evaluation returned is not recorded as timed out.
C25_TimeoutRestoresSignalState ==
  /\ frame.pc = "leave" =>
       /\ ~sigalrm.alarm
       /\ sigalrm.handler = frame.old_handler
       /\ frame.returned => frame.result.kind # "TimeoutError"
  /\ (frame.pc = "for" /\ frame.i > 1 /\ frame.returned) =>
       ("error" \in DOMAIN Evaluations[frame.app_id] =>
          Evaluations[frame.app_id].error # TimedOut)

\* C27: when evaluate_county_applications returns, eligible_applications +
\* ineligible_applications equals total_applications, the number of
\* applications handed in, whatever mix of them evaluated, raised or timed out.
C27_EveryApplicationCountedOnce ==
  frame.pc = "returned" =>
    /\ evaluation_results.eligibility_summary.total_applications = Len(applications)
    /\ evaluation_results.eligibility_summary.eligible_applications
         + evaluation_results.eligibility_summary.ineligible_applications
       = evaluation_results.eligibility_summary.total_applications

\* C27 witness: a returned run in which one application was evaluated as
\* eligible, one raised an error and one timed out
C27_Witness ==
  /\ frame.pc = "returned"
  /\ \E k \in DOMAIN Evaluations :
        "error" \notin DOMAIN Evaluations[k] /\ Evaluations[k].eligibility.eligible
  /\ \E k \in DOMAIN Evaluations :
        "error" \in DOMAIN Evaluations[k] /\ Evaluations[k].error = TimedOut
  /\ \E k \in DOMAIN Evaluations :
        "error" \in DOMAIN Evaluations[k] /\ Evaluations[k].error = "Evaluation failed"

\* C28: evaluate_county_applications ends with exactly one entry per input
\* application under pairwise distinct keys, whether the ids are missing,
\* empty or repeated and whether the application evaluated, raised or timed
\* out; every entry's application_id is its key.
C28_OneEntryPerApplication ==
  /\ frame.pc = "for" => Cardinality(DOMAIN Evaluations) = frame.i - 1
  /\ frame.pc \in {"returned", "TypeError"} =>
       /\ frame.pc = "returned"
       /\ Cardinality(DOMAIN Evaluations) = Len(applications)
       /\ \A k \in DOMAIN Evaluations : Evaluations[k].application_id = k

====
